---- MODULE Spec2Model ----
(***************************************************************************)
(* Routing and caching core of the chatbot: the response cache             *)
(* (cache/redis_manager.py), grounded generation (core/rag_engine.py),      *)
(* full-context generation (core/cag_engine.py) and the orchestrator       *)
(* (core/orchestrator.py).  Strings are TLA+ strings; TLC evaluates Len,   *)
(* SubSeq and \o on them, so str.lower(), str.strip() and the `in`         *)
(* substring test are computed character by character.                     *)
(***************************************************************************)
EXTENDS Integers, Sequences, FiniteSets, TLC

(***************************************************************************)
(* Python string primitives                                                *)
(***************************************************************************)
UpperChars == "ABCDEFGHIJKLMNOPQRSTUVWXYZÁÉÍÓÚÑ"
LowerChars == "abcdefghijklmnopqrstuvwxyzáéíóúñ"

\* str.isspace() for one character (the whitespace the inputs use).
IsSpace(c) == c \in {" ", "\n", "\t"}

\* str.lower() for one character.
LowerChar(c) ==
    IF \E i \in 1..Len(UpperChars) : SubSeq(UpperChars, i, i) = c
    THEN LET i == CHOOSE i \in 1..Len(UpperChars) : SubSeq(UpperChars, i, i) = c
         IN  SubSeq(LowerChars, i, i)
    ELSE c

RECURSIVE Lower(_)
\* str.lower(), one half of the string after the other
Lower(s) ==
    IF Len(s) <= 1 THEN LowerChar(s)
    ELSE Lower(SubSeq(s, 1, Len(s) \div 2)) \o Lower(SubSeq(s, Len(s) \div 2 + 1, Len(s)))

RECURSIVE LStrip(_)
LStrip(s) ==
    IF s = "" THEN ""
    ELSE IF IsSpace(SubSeq(s, 1, 1)) THEN LStrip(SubSeq(s, 2, Len(s)))
    ELSE s

RECURSIVE RStrip(_)
RStrip(s) ==
    IF s = "" THEN ""
    ELSE IF IsSpace(SubSeq(s, Len(s), Len(s))) THEN RStrip(SubSeq(s, 1, Len(s) - 1))
    ELSE s

\* str.strip()
Strip(s) == RStrip(LStrip(s))

Min(a, b) == IF a < b THEN a ELSE b

\* Python's `p in s` for strings.
Contains(p, s) ==
    \E i \in 1..(Len(s) - Len(p) + 1) : SubSeq(s, i, i + Len(p) - 1) = p

\* Python truthiness of a string: `if s:`.
Truthy(s) == s # ""

(***************************************************************************)
(* Fixed strings of the program                                            *)
(***************************************************************************)
\* The canonical refusal (rag_engine.py:276, orchestrator.py:195).
CanonicalRefusal == "No lo sé"
\* orchestrator.py:170
NoDocumentsMessage == "No tengo información suficiente para responder esta pregunta."
\* cag_engine.py:62, and orchestrator.py:204
ErrorMessage == "Lo siento, ocurrió un error al procesar tu consulta."
\* llms.py:130
UnavailableMessage == "Lo siento, el servicio de IA no está disponible en este momento."

\* orchestrator.py:77: a negative phrase counts only in a response shorter than this.
ShortResponseLen == 50
\* orchestrator.py:44
VeryShortResponseLen == 20
\* redis_manager.py:11
expiration_hours == 24
\* llms.py:36, stop_after_attempt(3)
stop_after_attempt == 3

(***************************************************************************)
(* The inputs the model draws from                                         *)
(***************************************************************************)
Queries == {"¿Se permite el teletrabajo?", "¿Cuál es la política de vacaciones?"}

\* What the completion service may return as message content.
OutPositive == "El artículo 5 exige autorización escrita del empleador."
OutShouted == "  NO LO SÉ \n"
OutNoData == "No tengo datos sobre eso."
OutLongNoInfo ==
    "En el documento no hay información sobre vacaciones, solo sobre teletrabajo."
OutBlank == "  "
\* An empty message content (a None content is falsy like it).
OutEmpty == ""
LLMOutputs ==
    {OutPositive, CanonicalRefusal, OutShouted, OutNoData, OutLongNoInfo, OutBlank,
     OutEmpty}

\* Two answers with a negative phrase, of 50 and of 49 characters.
ProbeAtThreshold == "El plazo no se menciona en el contrato de trabajo."
ProbeBelowThreshold == "El plazo no se menciona en el contrato de empleo."

\* Every string a classifier can be applied to.
Texts ==
    LLMOutputs \cup {Strip(s) : s \in LLMOutputs}
        \cup {CanonicalRefusal, NoDocumentsMessage, ErrorMessage, UnavailableMessage}
        \cup {ProbeAtThreshold, ProbeBelowThreshold}

(***************************************************************************)
(* The negative-response classifiers                                       *)
(***************************************************************************)
\* `not response or not response.strip()`
Blank(response) == ~Truthy(response) \/ ~Truthy(Strip(response))

\* orchestrator.py:22-32
negative_indicators ==
    {"no lo sé", "no encuentro", "no tengo información", "no está en el contexto",
     "no aparece en el texto", "no se menciona", "no hay información",
     "no puedo responder", "la información no está disponible"}

\* orchestrator.py:54-65 and cag_engine.py:149-160 (the same list)
negative_phrases ==
    {"no lo sé", "no tengo información", "no está en el contexto", "no encuentro",
     "no se menciona", "no aparece", "no puedo responder", "no hay información",
     "la información no está disponible", "no tengo datos"}

\* rag_engine.py:321-330
rag_negative_phrases ==
    {"no lo sé", "no tengo información", "no está en el contexto", "no encuentro",
     "no se menciona", "no aparece", "no puedo responder",
     "la información no está disponible"}

\* Orchestrator._should_fallback_to_cag
Orchestrator_should_fallback_to_cag(response) ==
    IF Blank(response) THEN TRUE
    ELSE LET response_lower == Lower(Strip(response))
             negative_count ==
                 Cardinality({i \in negative_indicators : Contains(i, response_lower)})
         IN  IF response_lower = "no lo sé" THEN TRUE
             ELSE \/ negative_count >= 1
                  \/ /\ Len(response_lower) < VeryShortResponseLen
                     /\ \E i \in negative_indicators : Contains(i, response_lower)

\* Orchestrator._is_negative_response without the blank test of
\* orchestrator.py:51-52.
Orchestrator_is_negative_response_no_blank_test(response) ==
    LET response_lower == Lower(Strip(response))
        has_negative == \E p \in negative_phrases : Contains(p, response_lower)
    IN  IF response_lower = "no lo sé" THEN TRUE
        ELSE has_negative /\ Len(response_lower) < ShortResponseLen

\* Orchestrator._is_negative_response
Orchestrator_is_negative_response(response) ==
    IF Blank(response) THEN TRUE
    ELSE LET response_lower == Lower(Strip(response))
             has_negative == \E p \in negative_phrases : Contains(p, response_lower)
         IN  IF response_lower = "no lo sé" THEN TRUE
             ELSE has_negative /\ Len(response_lower) < ShortResponseLen

\* CAGEngine._is_negative_response without the phrase test of
\* cag_engine.py:149-169: only a blank response or the exact refusal is negative.
CAGEngine_is_negative_response_exact_only(response) ==
    IF Blank(response) THEN TRUE
    ELSE Lower(Strip(response)) = "no lo sé"

\* CAGEngine._is_negative_response with the phrase list of the grounded
\* engine (rag_engine.py:321-330) in place of its own.
CAGEngine_is_negative_response_rag_phrases(response) ==
    IF Blank(response) THEN TRUE
    ELSE LET response_lower == Lower(Strip(response))
         IN  IF response_lower = "no lo sé" THEN TRUE
             ELSE \E p \in rag_negative_phrases : Contains(p, response_lower)

\* CAGEngine._is_negative_response
CAGEngine_is_negative_response(response) ==
    IF Blank(response) THEN TRUE
    ELSE LET response_lower == Lower(Strip(response))
         IN  IF response_lower = "no lo sé" THEN TRUE
             ELSE \E p \in negative_phrases : Contains(p, response_lower)

\* RAGEngine._is_negative_response
RAGEngine_is_negative_response(response) ==
    IF Blank(response) THEN TRUE
    ELSE LET response_lower == Lower(response)
         IN  \E p \in rag_negative_phrases : Contains(p, response_lower)

\* The classifiers tabulated over Texts, so that each string is scanned once.
should_fallback_to_cag == [s \in Texts |-> Orchestrator_should_fallback_to_cag(s)]
orch_is_negative == [s \in Texts |-> Orchestrator_is_negative_response(s)]
cag_is_negative == [s \in Texts |-> CAGEngine_is_negative_response(s)]
rag_is_negative == [s \in Texts |-> RAGEngine_is_negative_response(s)]

(***************************************************************************)
(* Structural chunking (RAGEngine._semantic_chunking)                      *)
(***************************************************************************)
Digits == "0123456789"
AsciiLetters == "abcdefghijklmnopqrstuvwxyzABCDEFGHIJKLMNOPQRSTUVWXYZ"
AccentedLetters == "áéíóúñÁÉÍÓÚÑ"

IsDigit(c) == Contains(c, Digits)

\* The rest of s from position i on.
From(s, i) == SubSeq(s, i, Len(s))

RECURSIVE SkipWhile(_, _, _)
\* The first position >= i of s whose character is not of the class isDigit
\* (TRUE: digits, FALSE: whitespace); Len(s) + 1 when there is none.
SkipWhile(s, i, isDigit) ==
    IF i > Len(s) THEN i
    ELSE LET c == SubSeq(s, i, i)
         IN  IF (isDigit /\ IsDigit(c)) \/ (~isDigit /\ IsSpace(c))
             THEN SkipWhile(s, i + 1, isDigit)
             ELSE i

\* ^(?:<keyword>)\s+\d+[.:]\s*(.+)$ with re.IGNORECASE on a stripped line:
\* the group, or "" when the line does not match.
KeywordTitle(line, keyword) ==
    LET k == Len(keyword)
        a == SkipWhile(line, k + 1, FALSE)
        b == SkipWhile(line, a, TRUE)
    IN  IF /\ Len(line) > k
           /\ Lower(SubSeq(line, 1, k)) = keyword
           /\ a > k + 1
           /\ b > a
           /\ b <= Len(line)
           /\ SubSeq(line, b, b) \in {".", ":"}
           /\ b < Len(line)
        THEN Strip(From(line, b + 1))
        ELSE ""

\* ^(\d+\.\d+\.?\s+.+)$
NumberedTitle(line) ==
    LET a == SkipWhile(line, 1, TRUE)
        b == SkipWhile(line, a + 1, TRUE)
        c == IF b <= Len(line) /\ SubSeq(line, b, b) = "." THEN b + 1 ELSE b
    IN  IF /\ a > 1
           /\ a <= Len(line)
           /\ SubSeq(line, a, a) = "."
           /\ b > a + 1
           /\ c <= Len(line)
           /\ IsSpace(SubSeq(line, c, c))
           /\ c < Len(line)
        THEN Strip(line)
        ELSE ""

\* ^([A-Z][A-Z\sáéíóúñÁÉÍÓÚÑ]{10,})$ with re.IGNORECASE
UpperCaseTitle(line) ==
    IF /\ Len(line) >= 11
       /\ Contains(SubSeq(line, 1, 1), AsciiLetters)
       /\ \A i \in 2..Len(line) :
              LET c == SubSeq(line, i, i)
              IN  Contains(c, AsciiLetters) \/ Contains(c, AccentedLetters) \/ IsSpace(c)
    THEN Strip(line)
    ELSE ""

\* rag_engine.py:79-84: the stripped group of the first pattern that matches
\* ("" when none does, and then the line is no title).
matched_title(line) ==
    IF KeywordTitle(line, "artículo") # "" THEN KeywordTitle(line, "artículo")
    ELSE IF KeywordTitle(line, "art") # "" THEN KeywordTitle(line, "art")
    ELSE IF NumberedTitle(line) # "" THEN NumberedTitle(line)
    ELSE IF UpperCaseTitle(line) # "" THEN UpperCaseTitle(line)
    ELSE IF KeywordTitle(line, "sección") # "" THEN KeywordTitle(line, "sección")
    ELSE KeywordTitle(line, "capítulo")

RECURSIVE SplitLines(_)
\* text.split('\n')
SplitLines(text) ==
    IF ~Contains("\n", text) THEN <<text>>
    ELSE LET i == CHOOSE i \in 1..Len(text) :
                      /\ SubSeq(text, i, i) = "\n"
                      /\ \A j \in 1..(i - 1) : SubSeq(text, j, j) # "\n"
         IN  <<SubSeq(text, 1, i - 1)>> \o SplitLines(From(text, i + 1))

RECURSIVE JoinLines(_)
\* '\n'.join(lines)
JoinLines(lines) ==
    IF lines = <<>> THEN ""
    ELSE IF Len(lines) = 1 THEN lines[1]
    ELSE lines[1] \o "\n" \o JoinLines(Tail(lines))

\* rag_engine.py:90, 112: a chunk is kept when it is longer than this.
min_chunk_len == 50
\* rag_engine.py:103: a chunk without a heading is closed beyond this length.
max_chunk_len == 600

\* One pass of the loop body of rag_engine.py:71-107 over one line; st is
\* [chunks, current_chunk, current_title].
ChunkLine(st, raw) ==
    LET line == Strip(raw)
        title == matched_title(line)
        is_title == title # ""
        closed ==
            IF is_title /\ st.current_chunk # <<>>
                 /\ Len(JoinLines(st.current_chunk)) > min_chunk_len
            THEN Append(st.chunks,
                        [text |-> JoinLines(st.current_chunk), title |-> st.current_title])
            ELSE st.chunks
        current == IF is_title THEN <<line>> ELSE Append(st.current_chunk, line)
        forced == ~is_title /\ Len(JoinLines(current)) > max_chunk_len
        now_title == IF is_title THEN title ELSE st.current_title
    IN  IF line = "" THEN st
        ELSE [chunks |-> IF forced
                         THEN Append(closed,
                                     [text |-> JoinLines(current), title |-> now_title])
                         ELSE closed,
              current_chunk |-> IF forced THEN <<>> ELSE current,
              current_title |-> now_title]

RECURSIVE ChunkLines(_, _)
ChunkLines(st, lines) ==
    IF lines = <<>> THEN st
    ELSE ChunkLines(ChunkLine(st, lines[1]), Tail(lines))

\* rag_engine.py:63-64: the locals before the loop
ChunkingStart ==
    [chunks |-> <<>>, current_chunk |-> <<>>, current_title |-> "Introducción"]

\* rag_engine.py:109-113: the chunks after the last chunk has been added
LastChunk(st) ==
    IF st.current_chunk # <<>> /\ Len(JoinLines(st.current_chunk)) > min_chunk_len
    THEN Append(st.chunks,
                [text |-> JoinLines(st.current_chunk), title |-> st.current_title])
    ELSE st.chunks

\* RAGEngine._semantic_chunking: the sequence of [text, title] chunks of a text.
RAGEngine_semantic_chunking(text) ==
    LastChunk(ChunkLines(ChunkingStart, SplitLines(text)))

(***************************************************************************)
(* Documents                                                               *)
(***************************************************************************)
DocIds == {"doc1"}

DocArticle ==
    "Artículo 5: Trabajo remoto\nEl trabajo remoto requiere autorización escrita del empleador.\nArtículo 6: Vacaciones\nCada empleado tiene derecho a quince días de vacaciones al año."
DocBlank == "   "
\* A later version of the document, with one article where there were two.
DocRevised ==
    "Artículo 5: Trabajo remoto\nEl trabajo remoto queda prohibido a partir del primero de enero."
DocTexts == {DocArticle, DocBlank}

\* The documents and texts of the ingestions taken on their own.
IngestDocIds == DocIds \cup {"doc2"}
IngestTexts == DocTexts \cup {DocRevised}

\* The chunker tabulated over the documents of the model.
semantic_chunks == [t \in IngestTexts |-> RAGEngine_semantic_chunking(t)]

RECURSIVE IntToStr(_)
\* str(n) for n >= 0
IntToStr(n) ==
    IF n < 10 THEN SubSeq(Digits, n + 1, n + 1)
    ELSE IntToStr(n \div 10) \o SubSeq(Digits, (n % 10) + 1, (n % 10) + 1)

\* rag_engine.py:134
chunk_id(doc_id, idx) == doc_id \o "_chunk_" \o IntToStr(idx)

\* rag_engine.py:269, the top_k of generate_answer
top_k == 5

(***************************************************************************)
(* State                                                                   *)
(***************************************************************************)
Calls == {"a", "b"}

VARIABLES
    cache,             \* redis: cache key -> the JSON text stored under it
    now,               \* datetime.now(), in hours
    documents_store,   \* RAGEngine.documents_store: sequence of [doc_id, content]
    collection,        \* the Chroma collection: chunk id -> [document, title, doc_id]
    azure_llm_client,  \* which client models/llms.py built at import
    call,              \* per route_query call: its position, locals and result
    redis_up,          \* whether the Redis server answers the commands sent to it
    last_set,          \* history: query -> the last set_cached_response the server took,
                       \* and whether a document was ingested since
    last_get,          \* history: what the last direct get_cached_response returned
    retrieval,         \* a _build_context call: its position, locals and result
    optimization,      \* an _optimize_context call: its position, locals and result
    completion,        \* a generation: the attempts made, the waits and the result
    chunking,          \* a _semantic_chunking call: its position, locals and result
    forced             \* a force_rag_search or force_cag_search call

vars ==
    <<cache, now, documents_store, collection, azure_llm_client, call, redis_up,
      last_set, last_get, retrieval, optimization, completion, chunking, forced>>

MaxTicks == 2
TickHours == expiration_hours \div 2

\* No forced search under way.
IdleForced ==
    [pc |-> "idle", search |-> "", query |-> "", full_text |-> "", response |-> "",
     route |-> "", source |-> "", cache_ignored |-> FALSE, llm_called |-> FALSE,
     read_cache |-> FALSE, cache_at_entry |-> <<>>]

\* The locals of _semantic_chunking before it is called; closed is the
\* history of the chunks closed, each with whether it was emitted.
IdleChunking ==
    [pc |-> "idle", lines |-> <<>>, i |-> 0, chunks |-> <<>>, current_chunk |-> <<>>,
     current_title |-> "", closed |-> <<>>]

\* No generation under way.
IdleCompletion ==
    [pc |-> "idle", mode |-> "", attempt_number |-> 0, errors |-> <<>>, waits |-> <<>>,
     completed |-> FALSE, raised |-> "", content |-> ""]

\* The locals of _optimize_context before it is called.
IdleOptimization ==
    [pc |-> "idle", query |-> "", context |-> "", relevant_sections |-> <<>>,
     taken |-> <<>>, optimized_context |-> ""]

\* The locals of _build_context before it is called.
IdleRetrieval ==
    [pc |-> "idle", top_k |-> 0, vector_ok |-> TRUE, lexical_ok |-> TRUE,
     corpus_empty |-> FALSE, vector_results |-> <<>>, hybrid_results |-> <<>>,
     rerank_top_k |-> 0, scored |-> "", results |-> <<>>, reranked_results |-> <<>>,
     reranked_again |-> <<>>, context_parts |-> <<>>]

IdleCall ==
    [pc |-> "idle", query |-> "", rag_response |-> "", full_text |-> "",
     cag_response |-> "", response |-> "", route |-> "", source |-> "",
     trace |-> <<>>,
     query_intent |-> [is_document_specific |-> FALSE, is_general_query |-> FALSE,
                       query_length |-> 0],
     seen |-> <<>>]

\* What one invocation of a completion endpoint does: return content, or raise.
LLMOutcomes ==
    {[ok |-> TRUE, content |-> s] : s \in LLMOutputs} \cup {[ok |-> FALSE, content |-> ""]}

Init ==
    /\ cache = <<>>
    /\ now = 0
    /\ documents_store = <<>>
    /\ collection = <<>>
    /\ azure_llm_client \in {"AzureOpenAIClient", "FallbackClient"}
    /\ call = [c \in Calls |-> IdleCall]
    /\ redis_up = TRUE
    /\ last_set = <<>>
    /\ last_get = <<>>
    /\ retrieval = IdleRetrieval
    /\ optimization = IdleOptimization
    /\ completion = IdleCompletion
    /\ chunking = IdleChunking
    /\ forced = IdleForced

(***************************************************************************)
(* cache/redis_manager.py                                                  *)
(***************************************************************************)
\* A cache key made of the query brought to lower case, its surrounding
\* whitespace removed.
cache_key_normalised(query) ==
    "response:" \o Lower(Strip(query))

\* redis_manager.py:30, 47
cache_key(query) ==
    "response:" \o query

(* json and datetime, as far as the cache manager uses them.  The server holds
   under each key the text json.dumps made of {"response", "expiration"}. *)
NonAscii == "áéíóúñÁÉÍÓÚÑ¿"
NonAsciiCodes ==
    <<"00e1", "00e9", "00ed", "00f3", "00fa", "00f1",
      "00c1", "00c9", "00cd", "00d3", "00da", "00d1", "00bf">>

\* The position of character c in s.
IndexOf(c, s) == CHOOSE i \in 1..Len(s) : SubSeq(s, i, i) = c

\* What json.dumps writes for one character of a str (ensure_ascii=True).
json_escape_char(c) ==
    IF c = "\"" THEN "\\\""
    ELSE IF c = "\\" THEN "\\\\"
    ELSE IF c = "\n" THEN "\\n"
    ELSE IF c = "\t" THEN "\\t"
    ELSE IF Contains(c, NonAscii) THEN "\\u" \o NonAsciiCodes[IndexOf(c, NonAscii)]
    ELSE c

RECURSIVE json_escape(_)
json_escape(s) ==
    IF s = "" THEN ""
    ELSE json_escape_char(SubSeq(s, 1, 1)) \o json_escape(SubSeq(s, 2, Len(s)))

\* json.dumps of a str
json_dumps_str(s) == "\"" \o json_escape(s) \o "\""

\* The dict of redis_manager.py:49-52 written with its strings between quotes
\* as they are, no character escaped.
json_dumps_unescaped(cached_data) ==
    "{\"response\": \"" \o cached_data.response
        \o "\", \"expiration\": \"" \o cached_data.expiration \o "\"}"

\* json.dumps(cached_data) for the dict of redis_manager.py:49-52
json_dumps(cached_data) ==
    "{\"response\": " \o json_dumps_str(cached_data.response)
        \o ", \"expiration\": " \o json_dumps_str(cached_data.expiration) \o "}"

\* The number of backslashes that stand in a row right before position i.
BackslashesBefore(data, i) ==
    CHOOSE n \in 0..(i - 1) :
        /\ \A j \in (i - n)..(i - 1) : SubSeq(data, j, j) = "\\"
        /\ i - n - 1 >= 1 => SubSeq(data, i - n - 1, i - n - 1) # "\\"

\* Position i of data opens an escape sequence.
EscapeStart(data, i) ==
    SubSeq(data, i, i) = "\\" /\ BackslashesBefore(data, i) % 2 = 0

\* Position i of data lies inside an escape sequence opened before it.
Escaped(data, i) ==
    \/ i > 1 /\ EscapeStart(data, i - 1)
    \/ \E d \in 2..5 : /\ i - d >= 1
                       /\ EscapeStart(data, i - d)
                       /\ SubSeq(data, i - d + 1, i - d + 1) = "u"

\* The escape sequence opened at position i is one json.loads reads.
EscapeKnown(data, i) ==
    \/ SubSeq(data, i + 1, i + 1) \in {"\"", "\\", "n", "t"}
    \/ /\ SubSeq(data, i + 1, i + 1) = "u"
       /\ \E n \in 1..Len(NonAsciiCodes) : NonAsciiCodes[n] = SubSeq(data, i + 2, i + 5)

\* What json.loads reads at position i of a string literal.
json_unescape_at(data, i) ==
    LET c == SubSeq(data, i, i)
        e == SubSeq(data, i + 1, i + 1)
    IN  CASE Escaped(data, i) -> ""
          [] ~Escaped(data, i) /\ ~EscapeStart(data, i) -> c
          [] ~Escaped(data, i) /\ EscapeStart(data, i) /\ e = "n" -> "\n"
          [] ~Escaped(data, i) /\ EscapeStart(data, i) /\ e = "t" -> "\t"
          [] ~Escaped(data, i) /\ EscapeStart(data, i) /\ e = "u" ->
                LET n == CHOOSE n \in 1..Len(NonAsciiCodes) :
                             NonAsciiCodes[n] = SubSeq(data, i + 2, i + 5)
                IN  SubSeq(NonAscii, n, n)
          [] OTHER -> e

RECURSIVE json_unescape(_, _, _)
\* The str json.loads reads from positions i..j of data.
json_unescape(data, i, j) ==
    IF i > j THEN "" ELSE json_unescape_at(data, i) \o json_unescape(data, i + 1, j)

\* json.loads reading a string literal whose characters start at position i of
\* data: [ok, value, next], next the position after the closing quote,
\* ok = FALSE where json.loads raises.
json_scan_string(data, i) ==
    LET closing == {j \in i..Len(data) :
                       SubSeq(data, j, j) = "\"" /\ BackslashesBefore(data, j) % 2 = 0}
        end == CHOOSE j \in closing : \A m \in closing : j <= m
    IN  IF closing = {} THEN [ok |-> FALSE, value |-> "", next |-> i]
        ELSE IF \E m \in i..(end - 1) :
                    \/ SubSeq(data, m, m) \in {"\n", "\t"}
                    \/ EscapeStart(data, m) /\ ~EscapeKnown(data, m)
        THEN [ok |-> FALSE, value |-> "", next |-> i]
        ELSE [ok |-> TRUE, value |-> json_unescape(data, i, end - 1), next |-> end + 1]

\* json.loads(data) for a text of the shape json_dumps writes:
\* [ok, response, expiration], ok = FALSE where json.loads raises.
json_loads(data) ==
    LET fail == [ok |-> FALSE, response |-> "", expiration |-> ""]
        open == "{\"response\": \""
        between == ", \"expiration\": \""
        r == json_scan_string(data, Len(open) + 1)
        e == json_scan_string(data, r.next + Len(between))
    IN  IF Len(data) < Len(open) \/ SubSeq(data, 1, Len(open)) # open THEN fail
        ELSE IF ~r.ok THEN fail
        ELSE IF r.next + Len(between) - 1 > Len(data) THEN fail
        ELSE IF SubSeq(data, r.next, r.next + Len(between) - 1) # between THEN fail
        ELSE IF ~e.ok THEN fail
        ELSE IF From(data, e.next) # "}" THEN fail
        ELSE [ok |-> TRUE, response |-> r.value, expiration |-> e.value]

\* n as two decimal digits
TwoDigits(n) ==
    SubSeq(Digits, (n \div 10) + 1, (n \div 10) + 1)
        \o SubSeq(Digits, (n % 10) + 1, (n % 10) + 1)

\* The number two decimal digits stand for.
ParseTwoDigits(s) ==
    (IndexOf(SubSeq(s, 1, 1), Digits) - 1) * 10 + IndexOf(SubSeq(s, 2, 2), Digits) - 1

\* datetime.isoformat() of the time t, t counting the hours from
\* 2025-01-01T00:00:00 on (within January).
datetime_isoformat(t) ==
    "2025-01-" \o TwoDigits((t \div 24) + 1) \o "T" \o TwoDigits(t % 24) \o ":00:00"

\* datetime.fromisoformat(s), in hours from 2025-01-01T00:00:00 on
datetime_fromisoformat(s) ==
    (ParseTwoDigits(SubSeq(s, 9, 10)) - 1) * 24 + ParseTwoDigits(SubSeq(s, 12, 13))

\* Queries that differ from one another in case, whitespace or punctuation only.
CacheQueries == {"Hola", "hola", "Hola ", "Hola."}

\* Responses with the characters json.dumps escapes: quotes, a backslash, a
\* line break, a tab and letters outside ASCII.
ValueEscapes == "Dijo \"sí\":\n\tC:\\año"
ValuePlain == "Hola"
ProbeValues == {ValueEscapes, ValuePlain}

\* The values set_cached_response is given and the times it is given them at.
CacheValues == Texts \cup ProbeValues
Times == {n * TickHours : n \in 0..MaxTicks}

\* The cache key tabulated over the queries of the model.
cache_key_of == [query \in Queries \cup CacheQueries |-> cache_key(query)]

\* json.dumps and json.loads tabulated over the texts the server can hold.
json_dumps_table ==
    [v \in CacheValues |->
        [t \in Times |->
            json_dumps([response |-> v,
                        expiration |-> datetime_isoformat(t + expiration_hours)])]]
json_loads_table ==
    [data \in {json_dumps_table[v][t] : v \in CacheValues, t \in Times} |->
        json_loads(data)]

\* get_cached_response with the comparison of redis_manager.py:35 turned
\* round: an entry is served only once its expiration has passed.
RedisCacheManager_get_cached_response_reversed(store, t, query) ==
    LET k == cache_key_of[query]
        cached == json_loads_table[store[k]]
    IN  IF k \in DOMAIN store /\ Truthy(store[k])
        THEN IF ~cached.ok THEN [found |-> FALSE, response |-> "", store |-> store]
             ELSE IF t > datetime_fromisoformat(cached.expiration)
             THEN [found |-> TRUE, response |-> cached.response, store |-> store]
             ELSE [found |-> FALSE, response |-> "",
                   store |-> [j \in DOMAIN store \ {k} |-> store[j]]]
        ELSE [found |-> FALSE, response |-> "", store |-> store]

\* get_cached_response with <= for the < of redis_manager.py:35: an entry is
\* still served at the very time of its expiration.
RedisCacheManager_get_cached_response_at_expiry(store, t, query) ==
    LET k == cache_key_of[query]
        cached == json_loads_table[store[k]]
    IN  IF k \in DOMAIN store /\ Truthy(store[k])
        THEN IF ~cached.ok THEN [found |-> FALSE, response |-> "", store |-> store]
             ELSE IF t <= datetime_fromisoformat(cached.expiration)
             THEN [found |-> TRUE, response |-> cached.response, store |-> store]
             ELSE [found |-> FALSE, response |-> "",
                   store |-> [j \in DOMAIN store \ {k} |-> store[j]]]
        ELSE [found |-> FALSE, response |-> "", store |-> store]

\* RedisCacheManager.get_cached_response on store at time t:
\* [found, response, store], found = FALSE standing for None (also where
\* json.loads raises and the handler of redis_manager.py:41-43 returns None).
RedisCacheManager_get_cached_response(store, t, query) ==
    LET k == cache_key_of[query]
        cached == json_loads_table[store[k]]
    IN  IF k \in DOMAIN store /\ Truthy(store[k])
        THEN IF ~cached.ok THEN [found |-> FALSE, response |-> "", store |-> store]
             ELSE IF t < datetime_fromisoformat(cached.expiration)
             THEN [found |-> TRUE, response |-> cached.response, store |-> store]
             ELSE [found |-> FALSE, response |-> "",
                   store |-> [j \in DOMAIN store \ {k} |-> store[j]]]
        ELSE [found |-> FALSE, response |-> "", store |-> store]

\* RedisCacheManager.set_cached_response: the store after the put.
RedisCacheManager_set_cached_response(store, t, query, response) ==
    LET k == cache_key_of[query]
    IN  [j \in DOMAIN store \cup {k} |->
            IF j = k THEN json_dumps_table[response][t] ELSE store[j]]

\* What the server holds under key k, read as get_cached_response reads it.
Entry(store, k) ==
    [response |-> json_loads_table[store[k]].response,
     expiration |-> datetime_fromisoformat(json_loads_table[store[k]].expiration)]

\* get_cached_response answering from what the server held, whether or not
\* the server answers.
RedisCacheManager_get_or_none_unguarded(up, store, t, query) ==
    RedisCacheManager_get_cached_response(store, t, query)

\* get_cached_response when the server may not answer: a command that raises
\* is caught and the lookup is a miss (redis_manager.py:41-43).
RedisCacheManager_get_or_none(up, store, t, query) ==
    IF up THEN RedisCacheManager_get_cached_response(store, t, query)
    ELSE [found |-> FALSE, response |-> "", store |-> store]

\* What the server holds after set_cached_response was to leave it as `after`:
\* a command that raises is caught and nothing is stored
\* (redis_manager.py:55-56).
RedisCacheManager_set_or_log(up, before, after) == IF up THEN after ELSE before

(***************************************************************************)
(* core/rag_engine.py                                                      *)
(***************************************************************************)
\* collection.add(ids, documents, metadatas) of Chroma: an empty batch raises,
\* an id the collection already holds keeps its stored record.
\* [raised, collection]
CollectionAdd(coll, doc_id, chunks) ==
    IF chunks = <<>> THEN [raised |-> TRUE, collection |-> coll]
    ELSE LET ids == {chunk_id(doc_id, i - 1) : i \in 1..Len(chunks)}
             idx(id) == CHOOSE i \in 1..Len(chunks) : chunk_id(doc_id, i - 1) = id
         IN  [raised |-> FALSE,
              collection |->
                  [id \in DOMAIN coll \cup ids |->
                      IF id \in DOMAIN coll THEN coll[id]
                      ELSE [document |-> chunks[idx(id)].text,
                            title |-> chunks[idx(id)].title,
                            doc_id |-> doc_id]]]

\* self.documents_store[doc_id] = text on an insertion-ordered dict
StorePut(store, doc_id, text) ==
    IF \E i \in 1..Len(store) : store[i].doc_id = doc_id
    THEN [i \in 1..Len(store) |->
             IF store[i].doc_id = doc_id
             THEN [doc_id |-> doc_id, content |-> text]
             ELSE store[i]]
    ELSE Append(store, [doc_id |-> doc_id, content |-> text])

RECURSIVE JoinDocuments(_)
JoinDocuments(store) ==
    IF store = <<>> THEN ""
    ELSE LET head == "[DOCUMENTO: " \o store[1].doc_id \o "]\n" \o store[1].content
         IN  IF Len(store) = 1 THEN head
             ELSE head \o "\n\n" \o JoinDocuments(Tail(store))

\* RAGEngine.get_document_text() without a doc_id
RAGEngine_get_document_text(store) == JoinDocuments(store)

\* The values documents_store takes: no document, or the one document with
\* the text last ingested for it.
DocumentStores ==
    {<<>>} \cup {<<[doc_id |-> d, content |-> t]>> : d \in DocIds, t \in DocTexts}

\* get_document_text tabulated over them.
document_text == [store \in DocumentStores |-> RAGEngine_get_document_text(store)]

\* RAGEngine._build_context: the contexts it can assemble, each given by the
\* chunks it is joined from; the context string is empty exactly when there
\* are none.  Hybrid search returns nothing for an empty collection or when it
\* raises; otherwise re-ranking keeps top_k of the candidates (which ones is up
\* to the scores of the embedding and cross-encoder models).
RAGEngine_build_context(coll, retrieval_ok) ==
    IF ~retrieval_ok \/ DOMAIN coll = {} THEN {{}}
    ELSE IF Cardinality(DOMAIN coll) <= top_k THEN {DOMAIN coll}
    ELSE {S \in SUBSET DOMAIN coll : Cardinality(S) = top_k}

\* generate_answer without the `if not context` return of rag_engine.py:274-276:
\* the completion service is asked whatever the context.
RAGEngine_generate_answer_always_asks(context, outcome) ==
    IF ~outcome.ok
    THEN [answer |-> CanonicalRefusal, llm_called |-> TRUE, raised |-> TRUE]
    ELSE LET answer == Strip(outcome.content)
         IN  [answer |-> IF rag_is_negative[answer] THEN CanonicalRefusal ELSE answer,
              llm_called |-> TRUE, raised |-> FALSE]

\* RAGEngine.generate_answer given the context and what the completion call
\* does: [answer, llm_called, raised]
RAGEngine_generate_answer(context, outcome) ==
    IF context = {}
    THEN [answer |-> CanonicalRefusal, llm_called |-> FALSE, raised |-> FALSE]
    ELSE IF ~outcome.ok
    THEN [answer |-> CanonicalRefusal, llm_called |-> TRUE, raised |-> TRUE]
    ELSE LET answer == Strip(outcome.content)
         IN  [answer |-> IF rag_is_negative[answer] THEN CanonicalRefusal ELSE answer,
              llm_called |-> TRUE, raised |-> FALSE]

(***************************************************************************)
(* models/llms.py                                                          *)
(***************************************************************************)
\* azure_llm_client.generate_response.  The real client retries an error of
\* RETRY_EXCEPTIONS until stop_after_attempt attempts are used up and then
\* raises; any other error raises at once.  `transient` is the number of
\* such errors the provider answers with before `final`.  The fallback
\* client built when the real one cannot be constructed returns its message.
\* [ok, content, attempts]
LLMClient_generate_response(client, transient, final) ==
    IF client = "FallbackClient"
    THEN [ok |-> TRUE, content |-> UnavailableMessage, attempts |-> 0]
    ELSE IF transient >= stop_after_attempt
    THEN [ok |-> FALSE, content |-> "", attempts |-> stop_after_attempt]
    ELSE [ok |-> final.ok, content |-> final.content, attempts |-> transient + 1]

(***************************************************************************)
(* core/cag_engine.py                                                      *)
(***************************************************************************)
\* cag_engine.py:71: a context up to this length is used whole.
whole_context_len == 8000
\* cag_engine.py:91: the relevance a section must exceed, in tenths
relevance_threshold == 3
\* cag_engine.py:100
max_length == 10000
\* cag_engine.py:111: the length of the start of the context the fallback keeps
fallback_length == 8000

\* The members of a set of integers in increasing order.
SortedSeq(S) ==
    [k \in 1..Cardinality(S) |-> CHOOSE x \in S : Cardinality({y \in S : y < x}) = k - 1]

\* cag_engine.py:124
stopwords == {"qué", "cómo", "cuándo", "dónde", "por", "para", "puedo", "se", "puede"}

\* [a-záéíóúñ] for one character
IsTermChar(c) == Contains(c, LowerChars)

\* \w for one character: the letters above, and the digits, the underscore,
\* the upper-case letters and the other letters the inputs use.
IsWordChar(c) ==
    IsTermChar(c) \/ Contains(c, UpperChars) \/ Contains(c, "0123456789_üÜ")

\* re.findall(r'\b[a-záéíóúñ]+\b', s): the runs of [a-záéíóúñ] that begin and
\* end at a word boundary, in the order they appear.
FindWords(s) ==
    LET char(i) == SubSeq(s, i, i)
        ends(i) == {j \in i..Len(s) :
                       /\ \A k \in i..j : IsTermChar(char(k))
                       /\ j = Len(s) \/ ~IsTermChar(char(j + 1))}
        starts == {i \in 1..Len(s) :
                      /\ IsTermChar(char(i))
                      /\ i = 1 \/ ~IsWordChar(char(i - 1))
                      /\ \E j \in ends(i) : j = Len(s) \/ ~IsWordChar(char(j + 1))}
        order == SortedSeq(starts)
    IN  [k \in DOMAIN order |->
            SubSeq(s, order[k], CHOOSE j \in ends(order[k]) : TRUE)]

\* CAGEngine._extract_key_terms
CAGEngine_extract_key_terms(query) ==
    SelectSeq(FindWords(Lower(query)), LAMBDA word : word \notin stopwords /\ Len(word) > 2)

\* The positions at which t occurs in s.
Occurrences(t, s) ==
    {i \in 1..(Len(s) - Len(t) + 1) : SubSeq(s, i, i + Len(t) - 1) = t}

RECURSIVE CountFrom(_, _, _)
\* The occurrences counted from position from on, none overlapping the one
\* counted before it.
CountFrom(positions, length, from) ==
    IF \A i \in positions : i < from THEN 0
    ELSE 1 + CountFrom(positions, length,
                       length + CHOOSE i \in positions :
                                    i >= from /\ \A j \in positions : j >= from => i <= j)

\* s.count(t)
StrCount(s, t) == CountFrom(Occurrences(t, s), Len(t), 1)

\* What one term adds to matches, in tenths: 1 and 0.1 for each occurrence
\* when the section has it, nothing otherwise.
TermMatches(section_lower, term) ==
    IF Contains(term, section_lower) THEN 10 + StrCount(section_lower, term) ELSE 0

RECURSIVE SumMatches(_, _)
\* matches after the loop over the terms, in tenths
SumMatches(section_lower, query_terms) ==
    IF query_terms = <<>> THEN 0
    ELSE TermMatches(section_lower, Head(query_terms))
             + SumMatches(section_lower, Tail(query_terms))

RECURSIVE TotalLength(_)
\* total_length for the sections given
TotalLength(sections) ==
    IF sections = <<>> THEN 0
    ELSE Len(Head(sections).section) + TotalLength(Tail(sections))

\* CAGEngine._calculate_section_relevance: matches, in tenths, and the number
\* of terms it is divided by; the score is matches / (10 * terms).
CAGEngine_calculate_section_relevance(section, query_terms) ==
    IF query_terms = <<>> THEN [matches |-> 0, terms |-> 1]
    ELSE [matches |-> SumMatches(Lower(section), query_terms),
          terms |-> Len(query_terms)]

\* relevance_score > 0.3
AboveThreshold(score) ==
    score.matches > relevance_threshold * score.terms

\* f"{score:.2f}"
FormatRelevance(score) ==
    LET hundredths == (20 * score.matches + score.terms) \div (2 * score.terms)
    IN  IntToStr(hundredths \div 100) \o "." \o IntToStr((hundredths % 100) \div 10)
            \o IntToStr(hundredths % 10)

DocumentMarker == "[DOCUMENTO:"

RECURSIVE SplitOnMarkers(_, _)
\* re.split(r'\[DOCUMENTO:[^\]]+\]', context) from position from on
SplitOnMarkers(context, from) ==
    LET char(i) == SubSeq(context, i, i)
        close(i) == {j \in (i + Len(DocumentMarker) + 1)..Len(context) : char(j) = "]"}
        starts == {i \in Occurrences(DocumentMarker, context) :
                      /\ i >= from
                      /\ i + Len(DocumentMarker) <= Len(context)
                      /\ char(i + Len(DocumentMarker)) # "]"
                      /\ close(i) # {}}
    IN  IF starts = {} THEN <<SubSeq(context, from, Len(context))>>
        ELSE LET start == SortedSeq(starts)[1]
             IN  <<SubSeq(context, from, start - 1)>>
                     \o SplitOnMarkers(context, SortedSeq(close(start))[1] + 1)

\* relevant_sections after the sort: the sections above the threshold with
\* their scores, the greater score first, equal scores in the order found.
RelevantSections(query_terms, context) ==
    LET sections == SelectSeq(SplitOnMarkers(context, 1), LAMBDA section : ~Blank(section))
        scored == [i \in DOMAIN sections |->
                      [section |-> sections[i],
                       score |-> CAGEngine_calculate_section_relevance(
                                     sections[i], query_terms)]]
        relevant == SelectSeq(scored, LAMBDA r : AboveThreshold(r.score))
        rank(i) == 1 + Cardinality({j \in DOMAIN relevant :
                          \/ relevant[j].score.matches > relevant[i].score.matches
                          \/ /\ relevant[j].score.matches = relevant[i].score.matches
                             /\ j < i})
    IN  [p \in DOMAIN relevant |-> relevant[CHOOSE i \in DOMAIN relevant : rank(i) = p]]

\* The sections the loop of lines 102-107 takes: it stops at the first one
\* that brings the sum of the section lengths over max_length.
TakenSections(relevant_sections) ==
    LET fits(k) == TotalLength(SubSeq(relevant_sections, 1, k)) <= max_length
    IN  SubSeq(relevant_sections, 1,
               Cardinality({k \in DOMAIN relevant_sections : \A i \in 1..k : fits(i)}))

RECURSIVE JoinSections(_)
\* optimized_context after the loop
JoinSections(taken) ==
    IF taken = <<>> THEN ""
    ELSE "\n\n[Relevancia: " \o FormatRelevance(Head(taken).score) \o "]\n"
             \o Head(taken).section \o JoinSections(Tail(taken))

\* _optimize_context without the truncated start of lines 109-112.
CAGEngine_optimize_context_no_fallback(query, context) ==
    IF Len(context) <= whole_context_len THEN context
    ELSE JoinSections(TakenSections(
             RelevantSections(CAGEngine_extract_key_terms(query), context)))

\* CAGEngine._optimize_context
CAGEngine_optimize_context(query, context) ==
    IF Len(context) <= whole_context_len THEN context
    ELSE LET optimized_context ==
                 JoinSections(TakenSections(
                     RelevantSections(CAGEngine_extract_key_terms(query), context)))
         IN  IF ~Truthy(optimized_context)
             THEN SubSeq(context, 1, Min(fallback_length, Len(context))) \o "\n\n[...]"
             ELSE optimized_context

(***************************************************************************)
(* core/orchestrator.py                                                    *)
(***************************************************************************)
\* _cache_response_if_valid with the route list of orchestrator.py:87 cut down
\* to the grounded route.
Orchestrator_cache_response_if_valid_rag_only(store, t, query, response, route) ==
    IF ~orch_is_negative[response] /\ route \in {"rag"}
    THEN [store |-> RedisCacheManager_set_cached_response(store, t, query, response),
          wrote |-> TRUE]
    ELSE [store |-> store, wrote |-> FALSE]

\* Orchestrator._cache_response_if_valid: [store, wrote], the store after it
\* and whether it called set_cached_response.
Orchestrator_cache_response_if_valid(store, t, query, response, route) ==
    IF ~orch_is_negative[response] /\ route \in {"rag", "cag"}
    THEN [store |-> RedisCacheManager_set_cached_response(store, t, query, response),
          wrote |-> TRUE]
    ELSE [store |-> store, wrote |-> FALSE]

\* The ways route_query ends, by the return statement taken.
Outcomes ==
    {"cache_hit", "grounded", "no_documents", "full_context", "both_negative",
     "exception"}

\* The "route" each return statement of route_query carries.
Orchestrator_route(outcome) ==
    CASE outcome = "cache_hit" -> "redis"
      [] outcome = "grounded" -> "rag"
      [] outcome = "no_documents" -> "cag"
      [] outcome = "full_context" -> "cag"
      [] outcome = "both_negative" -> "fallback"
      [] outcome = "exception" -> "error"

\* The "source" each return statement of route_query carries.
Orchestrator_source(outcome) ==
    CASE outcome = "cache_hit" -> "redis_cache"
      [] outcome = "grounded" -> "chroma_db"
      [] outcome = "no_documents" -> "no_documents"
      [] outcome = "full_context" -> "full_context"
      [] outcome = "both_negative" -> "no_information"
      [] outcome = "exception" -> "system_error"

\* orchestrator.py:151-160 with the branches exchanged.
Orchestrator_after_rag_inverted(rag_response) ==
    IF should_fallback_to_cag[rag_response] THEN "rag_cache" ELSE "document_text"

\* orchestrator.py:151-160: where route_query goes on with the grounded
\* answer, to the grounded return or to the full-context fallback.
Orchestrator_after_rag(rag_response) ==
    IF should_fallback_to_cag[rag_response] THEN "document_text" ELSE "rag_cache"

Log(c, events) == call[c].trace \o events

\* The history of puts after one more: when the server took a put of response
\* for query at time t, that put is the last one for the query.
LastSet(history, taken, t, query, response) ==
    IF taken
    THEN [q \in DOMAIN history \cup {query} |->
             IF q = query THEN [response |-> response, at |-> t, ingested |-> FALSE]
             ELSE history[q]]
    ELSE history

\* orchestrator.py:103-107
document_keywords ==
    {"artículo", "art", "sección", "capítulo", "prohibición", "norma", "reglamento",
     "política", "contrato", "cláusula", "documento", "pdf", "texto", "ley",
     "regulación"}

\* orchestrator.py:110-113
general_keywords ==
    {"qué es", "cómo funciona", "explica", "define", "significa", "cuál es",
     "dime sobre", "habla de", "información sobre"}

\* Orchestrator._extract_query_intent(query)
Orchestrator_extract_query_intent(query) ==
    LET query_lower == Lower(query)
    IN  [is_document_specific |->
             \E keyword \in document_keywords : Contains(keyword, query_lower),
         is_general_query |->
             \E keyword \in general_keywords : Contains(keyword, query_lower),
         query_length |-> Len(query)]

\* The intent of each query of the model.
query_intent_of == [query \in Queries |-> Orchestrator_extract_query_intent(query)]

\* What get_cached_response returned to its caller: the response, or None,
\* which `if cached_response:` tells from no string but the empty one.
Returned(got) == IF got.found THEN got.response ELSE ""

\* route_query is entered and the intent of the query computed
\* (orchestrator.py:130-133).  seen is a history: what the callees of
\* route_query have returned to it so far, and what the cache returned to the
\* full-context engine.
StartQuery(c, q) ==
    /\ call[c].pc = "idle"
    /\ call' = [call EXCEPT ![c] = [IdleCall EXCEPT !.pc = "cache_lookup", !.query = q,
                                                    !.query_intent = query_intent_of[q]]]
    /\ UNCHANGED <<cache, now, documents_store, collection, azure_llm_client, redis_up,
                   last_set, last_get, retrieval, optimization, completion, chunking, forced>>

\* route_query sending the queries about a document past a cached answer.
Orchestrator_after_lookup_by_intent(c, got) ==
    IF got.found /\ Truthy(got.response) /\ ~call[c].query_intent.is_document_specific
    THEN [call EXCEPT ![c].pc = "done",
                      ![c].response = got.response,
                      ![c].route = Orchestrator_route("cache_hit"),
                      ![c].source = Orchestrator_source("cache_hit"),
                      ![c].seen = call[c].seen \o <<Returned(got)>>,
                      ![c].trace = Log(c, <<"redis_hit">>)]
    ELSE [call EXCEPT ![c].pc = "rag",
                      ![c].seen = call[c].seen \o <<Returned(got)>>,
                      ![c].trace = Log(c, <<"redis_miss">>)]

\* orchestrator.py:136-144: the call after get_cached_response has returned
\* got to route_query.
Orchestrator_after_lookup(c, got) ==
    IF got.found /\ Truthy(got.response)
    THEN [call EXCEPT ![c].pc = "done",
                      ![c].response = got.response,
                      ![c].route = Orchestrator_route("cache_hit"),
                      ![c].source = Orchestrator_source("cache_hit"),
                      ![c].seen = call[c].seen \o <<Returned(got)>>,
                      ![c].trace = Log(c, <<"redis_hit">>)]
    ELSE [call EXCEPT ![c].pc = "rag",
                      ![c].seen = call[c].seen \o <<Returned(got)>>,
                      ![c].trace = Log(c, <<"redis_miss">>)]

\* orchestrator.py:135-144
CacheLookup(c) ==
    /\ call[c].pc = "cache_lookup"
    /\ LET got == RedisCacheManager_get_or_none(redis_up, cache, now, call[c].query)
       IN  /\ cache' = got.store
           /\ call' = Orchestrator_after_lookup(c, got)
    /\ UNCHANGED <<now, documents_store, collection, azure_llm_client, redis_up,
                   last_set, last_get, retrieval, optimization, completion, chunking, forced>>

\* orchestrator.py:148-151: rag_engine.generate_answer(query) and the
\* orchestrator's judgement of its answer.
RagAnswer(c, retrieval_ok, context, outcome) ==
    /\ call[c].pc = "rag"
    /\ context \in RAGEngine_build_context(collection, retrieval_ok)
    /\ LET r == RAGEngine_generate_answer(context, outcome)
       IN  call' = [call EXCEPT
               ![c].pc = Orchestrator_after_rag(r.answer),
               ![c].rag_response = r.answer,
               ![c].seen = call[c].seen \o <<r.answer>>,
               ![c].trace =
                   Log(c, <<IF context = {} THEN "context_empty" ELSE "context_found">>
                          \o (IF r.llm_called THEN <<"rag_llm">> ELSE <<>>)
                          \o (IF r.raised THEN <<"rag_raised">> ELSE <<>>))]
    /\ UNCHANGED <<cache, now, documents_store, collection, azure_llm_client, redis_up,
                   last_set, last_get, retrieval, optimization, completion, chunking, forced>>

\* orchestrator.py:152-159
RagCache(c) ==
    /\ call[c].pc = "rag_cache"
    /\ LET w == Orchestrator_cache_response_if_valid(
                    cache, now, call[c].query, call[c].rag_response, "rag")
       IN  /\ cache' = RedisCacheManager_set_or_log(redis_up, cache, w.store)
           /\ call' = [call EXCEPT ![c].pc = "done",
                                   ![c].response = call[c].rag_response,
                                   ![c].route = Orchestrator_route("grounded"),
                                   ![c].source = Orchestrator_source("grounded"),
                                   ![c].trace = Log(c, IF w.wrote /\ redis_up
                                                       THEN <<"redis_set">> ELSE <<>>)]
           /\ last_set' = LastSet(last_set, w.wrote /\ redis_up, now,
                                  call[c].query, call[c].rag_response)
    /\ UNCHANGED <<now, documents_store, collection, azure_llm_client, redis_up,
                   last_get, retrieval, optimization, completion, chunking, forced>>

\* orchestrator.py:164-176
GetDocumentText(c) ==
    /\ call[c].pc = "document_text"
    /\ LET full_text == document_text[documents_store]
       IN  IF Blank(full_text)
           THEN call' = [call EXCEPT ![c].pc = "done",
                                     ![c].full_text = full_text,
                                     ![c].response = NoDocumentsMessage,
                                     ![c].route = Orchestrator_route("no_documents"),
                                     ![c].source = Orchestrator_source("no_documents"),
                                     ![c].seen = call[c].seen \o <<full_text>>,
                                     ![c].trace = Log(c, <<"no_documents">>)]
           ELSE call' = [call EXCEPT ![c].pc = "cag_lookup",
                                     ![c].full_text = full_text,
                                     ![c].seen = call[c].seen \o <<full_text>>,
                                     ![c].trace = Log(c, <<"document_text">>)]
    /\ UNCHANGED <<cache, now, documents_store, collection, azure_llm_client, redis_up,
                   last_set, last_get, retrieval, optimization, completion, chunking, forced>>

\* cag_engine.py:26-44: the call after get_cached_response has returned got
\* to generate_response.
CAGEngine_after_lookup(c, got) ==
    LET optimized_context ==
            CAGEngine_optimize_context(call[c].query, call[c].full_text)
    IN  IF got.found /\ Truthy(got.response)
        THEN [call EXCEPT ![c].pc = "cag_judge",
                          ![c].cag_response = got.response,
                          ![c].seen = call[c].seen \o <<Returned(got), got.response>>,
                          ![c].trace = Log(c, <<"cag", "cag_redis_hit">>)]
        ELSE IF Blank(call[c].full_text)
        THEN [call EXCEPT ![c].pc = "cag_judge",
                          ![c].cag_response = NoDocumentsMessage,
                          ![c].seen = call[c].seen \o <<Returned(got), NoDocumentsMessage>>,
                          ![c].trace = Log(c, <<"cag">>)]
        ELSE IF ~Truthy(optimized_context)
        THEN [call EXCEPT ![c].pc = "cag_judge",
                          ![c].cag_response = CanonicalRefusal,
                          ![c].seen = call[c].seen \o <<Returned(got), CanonicalRefusal>>,
                          ![c].trace = Log(c, <<"cag">>)]
        ELSE [call EXCEPT ![c].pc = "cag_llm",
                          ![c].seen = call[c].seen \o <<Returned(got)>>,
                          ![c].trace = Log(c, <<"cag">>)]

\* orchestrator.py:179 entering cag_engine.generate_response, cag_engine.py:24-44
CagLookup(c) ==
    /\ call[c].pc = "cag_lookup"
    /\ LET got == RedisCacheManager_get_or_none(redis_up, cache, now, call[c].query)
       IN  /\ cache' = got.store
           /\ call' = CAGEngine_after_lookup(c, got)
    /\ UNCHANGED <<now, documents_store, collection, azure_llm_client, redis_up,
                   last_set, last_get, retrieval, optimization, completion, chunking, forced>>

\* cag_engine.py:46-62: the completion call, the engine's own cache write and
\* its handler.
CagGenerate(c, transient, final) ==
    /\ call[c].pc = "cag_llm"
    /\ LET r == LLMClient_generate_response(azure_llm_client, transient, final)
       IN  IF ~r.ok
           THEN /\ call' = [call EXCEPT ![c].pc = "cag_judge",
                                        ![c].cag_response = ErrorMessage,
                                        ![c].seen = call[c].seen \o <<ErrorMessage>>,
                                        ![c].trace = Log(c, <<"cag_llm", "cag_raised">>)]
                /\ UNCHANGED <<cache, last_set>>
           ELSE LET valid == Truthy(r.content) /\ ~cag_is_negative[r.content]
                IN  /\ cache' = IF valid
                                THEN RedisCacheManager_set_or_log(
                                         redis_up, cache,
                                         RedisCacheManager_set_cached_response(
                                             cache, now, call[c].query, r.content))
                                ELSE cache
                    /\ call' = [call EXCEPT
                           ![c].pc = "cag_judge",
                           ![c].cag_response = r.content,
                           ![c].seen = call[c].seen \o <<r.content>>,
                           ![c].trace = Log(c, <<"cag_llm">> \o
                                               (IF valid /\ redis_up
                                                THEN <<"cag_redis_set">> ELSE <<>>))]
                    /\ last_set' = LastSet(last_set, valid /\ redis_up, now,
                                           call[c].query, r.content)
    /\ UNCHANGED <<now, documents_store, collection, azure_llm_client, redis_up,
                   last_get, retrieval, optimization, completion, chunking, forced>>

\* orchestrator.py:181-199
CagJudge(c) ==
    /\ call[c].pc = "cag_judge"
    /\ IF ~orch_is_negative[call[c].cag_response]
       THEN LET w == Orchestrator_cache_response_if_valid(
                         cache, now, call[c].query, call[c].cag_response, "cag")
            IN  /\ cache' = RedisCacheManager_set_or_log(redis_up, cache, w.store)
                /\ call' = [call EXCEPT ![c].pc = "done",
                                        ![c].response = call[c].cag_response,
                                        ![c].route = Orchestrator_route("full_context"),
                                        ![c].source = Orchestrator_source("full_context"),
                                        ![c].trace = Log(c, IF w.wrote /\ redis_up
                                                            THEN <<"redis_set">>
                                                            ELSE <<>>)]
                /\ last_set' = LastSet(last_set, w.wrote /\ redis_up, now,
                                       call[c].query, call[c].cag_response)
       ELSE /\ UNCHANGED <<cache, last_set>>
            /\ call' = [call EXCEPT ![c].pc = "done",
                                    ![c].response = CanonicalRefusal,
                                    ![c].route = Orchestrator_route("both_negative"),
                                    ![c].source = Orchestrator_source("both_negative"),
                                    ![c].trace = Log(c, <<"both_negative">>)]
    /\ UNCHANGED <<now, documents_store, collection, azure_llm_client, redis_up,
                   last_get, retrieval, optimization, completion, chunking, forced>>

\* ingest_document emptying the response cache as well.
IngestDocumentFlushing(doc_id, text) ==
    /\ \A c \in Calls : call[c].pc = "idle"
    /\ documents_store' = StorePut(documents_store, doc_id, text)
    /\ collection' = CollectionAdd(collection, doc_id, semantic_chunks[text]).collection
    /\ cache' = <<>>
    /\ last_set' = [q \in DOMAIN last_set |-> [last_set[q] EXCEPT !.ingested = TRUE]]
    /\ UNCHANGED <<now, azure_llm_client, call, redis_up,
                   last_get, retrieval, optimization, completion, chunking, forced>>

\* RAGEngine.ingest_document(doc_id, text); when collection.add raises the
\* exception leaves the method after the text has been stored.  The history
\* last_set notes that a document was ingested after each write it holds.
IngestDocument(doc_id, text) ==
    /\ \A c \in Calls : call[c].pc = "idle"
    /\ documents_store' = StorePut(documents_store, doc_id, text)
    /\ collection' = CollectionAdd(collection, doc_id, semantic_chunks[text]).collection
    /\ last_set' = [q \in DOMAIN last_set |-> [last_set[q] EXCEPT !.ingested = TRUE]]
    /\ UNCHANGED <<cache, now, azure_llm_client, call, redis_up,
                   last_get, retrieval, optimization, completion, chunking, forced>>

\* The caller has taken the result of route_query: the call's locals are gone.
Return(c) ==
    /\ call[c].pc = "done"
    /\ call' = [call EXCEPT ![c] = IdleCall]
    /\ UNCHANGED <<cache, now, documents_store, collection, azure_llm_client, redis_up,
                   last_set, last_get, retrieval, optimization, completion, chunking, forced>>

\* Wall-clock time passes between requests, half a lifetime of an entry at a time.
Tick ==
    /\ \A c \in Calls : call[c].pc = "idle"
    /\ now < MaxTicks * TickHours
    /\ now' = now + TickHours
    /\ UNCHANGED <<cache, documents_store, collection, azure_llm_client, call, redis_up,
                   last_set, last_get, retrieval, optimization, completion, chunking, forced>>

\* One route_query call at a time, as the request handlers run them.
Next ==
    \/ \E q \in Queries : StartQuery("a", q)
    \/ CacheLookup("a")
    \/ \E ok \in BOOLEAN, o \in LLMOutcomes :
           \E ctx \in RAGEngine_build_context(collection, ok) : RagAnswer("a", ok, ctx, o)
    \/ RagCache("a")
    \/ GetDocumentText("a")
    \/ CagLookup("a")
    \/ \E n \in 0..stop_after_attempt, o \in LLMOutcomes : CagGenerate("a", n, o)
    \/ CagJudge("a")
    \/ \E d \in DocIds, t \in DocTexts : IngestDocument(d, t)
    \/ Return("a")
    \/ Tick

Spec == Init /\ [][Next]_vars

(***************************************************************************)
(* The same calls with a Redis server that may stop answering              *)
(***************************************************************************)
\* The connection to the Redis server is lost: every command raises.
RedisFails ==
    /\ redis_up
    /\ redis_up' = FALSE
    /\ UNCHANGED <<cache, now, documents_store, collection, azure_llm_client, call,
                   last_set, last_get, retrieval, optimization, completion, chunking, forced>>

\* The server answers again, holding what it held.
RedisRecovers ==
    /\ ~redis_up
    /\ redis_up' = TRUE
    /\ UNCHANGED <<cache, now, documents_store, collection, azure_llm_client, call,
                   last_set, last_get, retrieval, optimization, completion, chunking, forced>>

\* A step of the route_query call c after its entry.
CallStep(c) ==
    \/ CacheLookup(c)
    \/ \E ok \in BOOLEAN, o \in LLMOutcomes :
           \E ctx \in RAGEngine_build_context(collection, ok) : RagAnswer(c, ok, ctx, o)
    \/ RagCache(c)
    \/ GetDocumentText(c)
    \/ CagLookup(c)
    \/ \E n \in 0..stop_after_attempt, o \in LLMOutcomes : CagGenerate(c, n, o)
    \/ CagJudge(c)

\* Calls made one after the other, without the passing of time (a failed
\* lookup is a miss whatever the age of the entry).
NextFaults ==
    \/ \E q \in Queries : StartQuery("a", q)
    \/ CallStep("a")
    \/ \E d \in DocIds, t \in DocTexts : IngestDocument(d, t)
    \/ Return("a")
    \/ RedisFails
    \/ RedisRecovers

\* route_query is synchronous code: once entered it runs to its return.
SpecFaults == Init /\ [][NextFaults]_vars /\ WF_vars(CallStep("a"))

(***************************************************************************)
(* The cache manager called on its own                                     *)
(***************************************************************************)
\* redis_manager.set_cached_response(query, response)
CacheSet(query, response) ==
    /\ cache' = RedisCacheManager_set_or_log(
                    redis_up, cache,
                    RedisCacheManager_set_cached_response(cache, now, query, response))
    /\ last_set' = LastSet(last_set, redis_up, now, query, response)
    /\ UNCHANGED <<now, documents_store, collection, azure_llm_client, call, redis_up,
                   last_get, retrieval, optimization, completion, chunking, forced>>

\* redis_manager.get_cached_response(query); the history keeps what it
\* returned, the response of the last put for the query before it and the time
\* gone by since that put.
CacheGet(query) ==
    /\ LET r == RedisCacheManager_get_or_none(redis_up, cache, now, query)
       IN  /\ cache' = r.store
           /\ last_get' = <<[query |-> query, found |-> r.found, response |-> r.response,
                             set |-> IF query \in DOMAIN last_set
                                     THEN <<[response |-> last_set[query].response,
                                             age |-> now - last_set[query].at]>>
                                     ELSE <<>>]>>
    /\ UNCHANGED <<now, documents_store, collection, azure_llm_client, call, redis_up,
                   last_set, retrieval, optimization, completion, chunking, forced>>

NextCache ==
    \/ \E q \in CacheQueries, v \in ProbeValues : CacheSet(q, v)
    \/ \E q \in CacheQueries : CacheGet(q)
    \/ Tick

\* The cache manager does not use the completion client: one of the two
\* clients stands for both.
InitCache == Init /\ azure_llm_client = "AzureOpenAIClient"

SpecCache == InitCache /\ [][NextCache]_vars

(***************************************************************************)
(* Ingestions on their own                                                 *)
(***************************************************************************)
NextIngest ==
    \E d \in IngestDocIds, t \in IngestTexts : IngestDocument(d, t)

SpecIngest == Init /\ [][NextIngest]_vars

(***************************************************************************)
(* Retrieval: core/rag_engine.py, _hybrid_search and _rerank_results       *)
(***************************************************************************)
\* The top_k values _hybrid_search is called with.
HybridTopKs == {1, 2}

\* Scores and distances are held in tenths.  The distances Chroma reports for
\* a chunk text and the scores BM25Okapi gives it.
VectorDistances == {2, 8}
BM25Scores == {0, 4}

\* The chunk texts the collection can hold: the two chunks of DocArticle and
\* the one chunk of DocRevised, as semantic_chunks gives them.
ChunkRemote ==
    "Artículo 5: Trabajo remoto\nEl trabajo remoto requiere autorización escrita del empleador."
ChunkHolidays ==
    "Artículo 6: Vacaciones\nCada empleado tiene derecho a quince días de vacaciones al año."
ChunkTexts == {ChunkRemote, ChunkHolidays, DocRevised}

prefix_len == 100

\* doc[:100], tabulated over the chunk texts
text_prefix ==
    [d \in ChunkTexts |->
        SubSeq(d, 1, IF Len(d) < prefix_len THEN Len(d) ELSE prefix_len)]

\* not (doc and doc.strip()), tabulated over the chunk texts
text_blank == [d \in ChunkTexts |-> Blank(d)]

\* The ids the records of the collection searched can have, and the lists of
\* them an index can answer with.
RetrievalChunkIds ==
    {chunk_id(doc_id, idx) : doc_id \in {"doc1", "doc2"}, idx \in 0..1}

IdLists == UNION {[1..n -> RetrievalChunkIds] : n \in 0..3}

\* ids lists every member of S once.
IsOrdering(ids, S) ==
    /\ Len(ids) = Cardinality(S)
    /\ {ids[i] : i \in DOMAIN ids} = S

\* collection.query(n_results = n): the n nearest records, nearest first; ids
\* lists the whole collection by increasing distance.
CollectionQuery(coll, distance, ids, n) ==
    [i \in 1..Min(n, Len(ids)) |->
        [document |-> coll[ids[i]].document,
         metadata |-> [doc_id |-> coll[ids[i]].doc_id, title |-> coll[ids[i]].title],
         distance |-> distance[coll[ids[i]].document]]]

\* The loop over the vector results: the nearest records with a text, scored
\* 1 - distance.
VectorCandidates(vector_results) ==
    LET kept == SelectSeq(vector_results, LAMBDA r : ~text_blank[r.document])
    IN  [i \in 1..Len(kept) |->
            [text |-> kept[i].document,
             metadata |-> kept[i].metadata,
             score |-> 10 - kept[i].distance,
             type |-> "vector"]]

\* seen_ids after the loop over the vector results
SeenIds(hybrid_results) ==
    {text_prefix[hybrid_results[i].text] : i \in 1..Len(hybrid_results)}

\* The loop over the lexical results without the test of the score.
RECURSIVE LexicalMergeAnyScore(_, _, _, _)
LexicalMergeAnyScore(hybrid_results, coll, bm25_scores, bm25_indices) ==
    IF bm25_indices = <<>> THEN hybrid_results
    ELSE LET doc_text == coll[Head(bm25_indices)].document
         IN  IF text_prefix[doc_text] \notin SeenIds(hybrid_results)
             THEN LexicalMergeAnyScore(
                      Append(hybrid_results,
                             [text |-> doc_text,
                              metadata |-> [doc_id |-> "bm25_result", chunk_type |-> "bm25"],
                              score |-> bm25_scores[doc_text],
                              type |-> "bm25"]),
                      coll, bm25_scores, Tail(bm25_indices))
             ELSE LexicalMergeAnyScore(hybrid_results, coll, bm25_scores,
                                       Tail(bm25_indices))

\* The loop over bm25_indices: a text is added when its first 100 characters
\* have not been seen and its lexical score is positive.
RECURSIVE LexicalMerge(_, _, _, _)
LexicalMerge(hybrid_results, coll, bm25_scores, bm25_indices) ==
    IF bm25_indices = <<>> THEN hybrid_results
    ELSE LET doc_text == coll[Head(bm25_indices)].document
         IN  IF /\ text_prefix[doc_text] \notin SeenIds(hybrid_results)
                /\ bm25_scores[doc_text] > 0
             THEN LexicalMerge(
                      Append(hybrid_results,
                             [text |-> doc_text,
                              metadata |-> [doc_id |-> "bm25_result", chunk_type |-> "bm25"],
                              score |-> bm25_scores[doc_text],
                              type |-> "bm25"]),
                      coll, bm25_scores, Tail(bm25_indices))
             ELSE LexicalMerge(hybrid_results, coll, bm25_scores, Tail(bm25_indices))

\* _hybrid_search(query, top_k) is entered.
StartSearch(k) ==
    /\ retrieval.pc = "idle"
    /\ \A c \in Calls : call[c].pc = "idle"
    /\ retrieval' = [IdleRetrieval EXCEPT !.pc = "vector", !.top_k = k]
    /\ UNCHANGED <<cache, now, documents_store, collection, azure_llm_client, call,
                   redis_up, last_set, last_get, optimization, completion, chunking, forced>>

\* collection.query answers with the nearest 2 * top_k records.
VectorSearch(distance, ids) ==
    /\ retrieval.pc = "vector"
    /\ IsOrdering(ids, DOMAIN collection)
    /\ \A i, j \in DOMAIN ids :
           i < j => distance[collection[ids[i]].document]
                        <= distance[collection[ids[j]].document]
    /\ retrieval' =
           [retrieval EXCEPT
               !.pc = "lexical",
               !.vector_results =
                   CollectionQuery(collection, distance, ids, retrieval.top_k * 2)]
    /\ UNCHANGED <<cache, now, documents_store, collection, azure_llm_client, call,
                   redis_up, last_set, last_get, optimization, completion, chunking, forced>>

\* collection.get, BM25Okapi and the merge of the two lists; ids lists the
\* corpus by decreasing lexical score (argsort()[::-1]).
LexicalSearch(bm25_scores, ids) ==
    /\ retrieval.pc = "lexical"
    /\ IsOrdering(ids, DOMAIN collection)
    /\ \A i, j \in DOMAIN ids :
           i < j => bm25_scores[collection[ids[i]].document]
                        >= bm25_scores[collection[ids[j]].document]
    /\ LET all_documents == {id \in DOMAIN collection : collection[id].document # ""}
           bm25_indices == SubSeq(ids, 1, Min(retrieval.top_k, Len(ids)))
       IN  retrieval' =
               IF all_documents = {}
               THEN [retrieval EXCEPT !.pc = "found", !.corpus_empty = TRUE,
                                      !.hybrid_results = <<>>]
               ELSE [retrieval EXCEPT
                        !.pc = "found",
                        !.hybrid_results =
                            LexicalMerge(VectorCandidates(retrieval.vector_results),
                                         collection, bm25_scores, bm25_indices)]
    /\ UNCHANGED <<cache, now, documents_store, collection, azure_llm_client, call,
                   redis_up, last_set, last_get, optimization, completion, chunking, forced>>

\* collection.query, or collection.get or BM25Okapi after it, raises: the one
\* except clause of _hybrid_search returns the empty list.
SearchFails ==
    /\ retrieval.pc \in {"vector", "lexical"}
    /\ retrieval' =
           [retrieval EXCEPT
               !.pc = "found",
               !.vector_ok = (retrieval.pc # "vector"),
               !.lexical_ok = (retrieval.pc # "lexical"),
               !.hybrid_results = <<>>]
    /\ UNCHANGED <<cache, now, documents_store, collection, azure_llm_client, call,
                   redis_up, last_set, last_get, optimization, completion, chunking, forced>>

\* The top_k values _rerank_results is called with.
RerankTopKs == {1, 2}

\* The scores the cross-encoder gives a (query, text) pair, in tenths.
RerankScores == {4, 10}

\* How far a call of _rerank_results gets: every result is scored, predict
\* raises, or the loop raises after it has scored one result.
Scorings == {"all", "none", "one"}

\* The score of the cross-encoder taken alone.
CombinedScoreRerankOnly(original_score, rerank_score) ==
    rerank_score

\* (original_score * 0.5) + (rerank_score * 0.5)
CombinedScore(original_score, rerank_score) ==
    (original_score * 5 + rerank_score * 5) \div 10

\* One pass of the loop that overwrites the raw score with the combined one.
ScoreResultOverwriting(result, rerank_score) ==
    [text |-> result.text, metadata |-> result.metadata,
     score |-> CombinedScore(result.score, rerank_score), type |-> result.type,
     combined_score |-> CombinedScore(result.score, rerank_score),
     rerank_score |-> rerank_score]

\* One pass of the loop: result["combined_score"] and result["rerank_score"]
\* are set on the candidate itself.
ScoreResult(result, rerank_score) ==
    [text |-> result.text, metadata |-> result.metadata,
     score |-> result.score, type |-> result.type,
     combined_score |-> CombinedScore(result.score, rerank_score),
     rerank_score |-> rerank_score]

\* results.sort(key = combined_score, reverse = True): equal keys keep the
\* order they had.
SortByCombinedScore(results) ==
    LET rank(i) ==
            1 + Cardinality({j \in DOMAIN results :
                               \/ results[j].combined_score > results[i].combined_score
                               \/ /\ results[j].combined_score = results[i].combined_score
                                  /\ j < i})
    IN  [p \in DOMAIN results |-> results[CHOOSE i \in DOMAIN results : rank(i) = p]]

\* The empty list in the place of results[:top_k].
SliceNone(results, k) ==
    <<>>

\* results[:top_k] for top_k >= 0
Slice(results, k) ==
    SubSeq(results, 1, Min(k, Len(results)))

\* _rerank_results(query, results, top_k) with the scores predict returns for
\* the pairs; [results, returned]: the list the caller passed, as the call
\* leaves it, and the list returned.
RAGEngine_rerank_results(results, rerank_scores, k, scored) ==
    IF results = <<>> THEN [results |-> results, returned |-> <<>>]
    ELSE IF scored = "all"
    THEN LET sorted == SortByCombinedScore(
                           [i \in DOMAIN results |->
                               ScoreResult(results[i], rerank_scores[i])])
         IN  [results |-> sorted, returned |-> Slice(sorted, k)]
    ELSE LET partial == [i \in DOMAIN results |->
                            IF scored = "one" /\ i = 1
                            THEN ScoreResult(results[i], rerank_scores[i])
                            ELSE results[i]]
         IN  [results |-> partial, returned |-> Slice(partial, k)]

\* _rerank_results is called with the candidates of the search.
Rerank(k, scores, scored) ==
    /\ retrieval.pc = "found"
    /\ LET r == RAGEngine_rerank_results(
                    retrieval.hybrid_results,
                    [i \in DOMAIN retrieval.hybrid_results |->
                        scores[retrieval.hybrid_results[i].text]],
                    k, scored)
       IN  retrieval' = [retrieval EXCEPT !.pc = "reranked",
                                          !.rerank_top_k = k,
                                          !.scored = scored,
                                          !.results = r.results,
                                          !.reranked_results = r.returned]
    /\ UNCHANGED <<cache, now, documents_store, collection, azure_llm_client, call,
                   redis_up, last_set, last_get, optimization, completion, chunking, forced>>

\* _rerank_results is called again with the same query and top_k and with the
\* list object the first call was given; predict gives each pair the score it
\* gave it before, and raises where it raised before.
RerankAgain ==
    /\ retrieval.pc = "reranked"
    /\ LET r == RAGEngine_rerank_results(
                    retrieval.results,
                    [i \in DOMAIN retrieval.results |->
                        IF "rerank_score" \in DOMAIN retrieval.results[i]
                        THEN retrieval.results[i].rerank_score
                        ELSE 0],
                    retrieval.rerank_top_k, retrieval.scored)
       IN  retrieval' = [retrieval EXCEPT !.pc = "reranked_again",
                                          !.results = r.results,
                                          !.reranked_again = r.returned]
    /\ UNCHANGED <<cache, now, documents_store, collection, azure_llm_client, call,
                   redis_up, last_set, last_get, optimization, completion, chunking, forced>>

\* f"{score:.3f}" of a score held in tenths
FormatScore(score) ==
    IF score < 0
    THEN "-" \o IntToStr((0 - score) \div 10) \o "."
             \o IntToStr((0 - score) % 10) \o "00"
    ELSE IntToStr(score \div 10) \o "." \o IntToStr(score % 10) \o "00"

RECURSIVE ContextParts(_)
\* context_parts of _build_context: three lines for each candidate
ContextParts(reranked_results) ==
    IF reranked_results = <<>> THEN <<>>
    ELSE <<"[Relevancia: " \o FormatScore(Head(reranked_results).combined_score) \o "]",
           Head(reranked_results).text,
           "---">> \o ContextParts(Tail(reranked_results))

\* The rest of _build_context: the context is the lines of context_parts
\* joined by "\n"; a candidate without a combined_score raises KeyError and
\* the except clause returns the empty context.
AssembleContext ==
    /\ retrieval.pc = "reranked"
    /\ retrieval' =
           [retrieval EXCEPT
               !.pc = "built",
               !.context_parts =
                   IF \A i \in DOMAIN retrieval.reranked_results :
                          "combined_score" \in DOMAIN retrieval.reranked_results[i]
                   THEN ContextParts(retrieval.reranked_results)
                   ELSE <<>>]
    /\ UNCHANGED <<cache, now, documents_store, collection, azure_llm_client, call,
                   redis_up, last_set, last_get, optimization, completion, chunking, forced>>

\* The caller has taken the candidates or the context.
FinishSearch ==
    /\ retrieval.pc \in {"found", "reranked_again", "built"}
    /\ retrieval' = IdleRetrieval
    /\ UNCHANGED <<cache, now, documents_store, collection, azure_llm_client, call,
                   redis_up, last_set, last_get, optimization, completion, chunking, forced>>

\* The ingestions that fill the collection searched: two documents, one of
\* them in two versions, the later version equal to the other document.
RetrievalIngestions ==
    {<<"doc1", DocArticle>>, <<"doc1", DocRevised>>, <<"doc2", DocRevised>>}

NextRetrieval ==
    \/ /\ retrieval.pc = "idle"
       /\ \E i \in RetrievalIngestions : IngestDocument(i[1], i[2])
    \/ \E k \in HybridTopKs : StartSearch(k)
    \/ \E distance \in [ChunkTexts -> VectorDistances],
          ids \in IdLists : VectorSearch(distance, ids)
    \/ \E bm25_scores \in [ChunkTexts -> BM25Scores],
          ids \in IdLists : LexicalSearch(bm25_scores, ids)
    \/ SearchFails
    \/ \E k \in RerankTopKs, scores \in [ChunkTexts -> RerankScores],
          scored \in Scorings : Rerank(k, scores, scored)
    \/ RerankAgain
    \/ AssembleContext
    \/ FinishSearch

\* The retrieval does not use the completion client: one of the two clients
\* stands for both.
InitRetrieval == Init /\ azure_llm_client = "AzureOpenAIClient"

SpecRetrieval == InitRetrieval /\ [][NextRetrieval]_vars

(***************************************************************************)
(* The context optimiser on its own: core/cag_engine.py, _optimize_context *)
(***************************************************************************)
OptimizeQueries ==
    {"¿Se permite el teletrabajo?", "¿Cuál es la política de vacaciones?",
     "¿Qué se puede?", "TELETRABAJO", "¿Cuántos días de vacaciones tiene cada empleado?"}

SentenceRemote == "El teletrabajo requiere autorización escrita del empleador. "
SentenceLeave == "Cada empleado tiene derecho a quince días de vacaciones al año. "
SentenceOther == "Las disposiciones generales se aplican a todo el personal. "

RECURSIVE Repeat(_, _)
\* s * n
Repeat(s, n) ==
    IF n = 0 THEN ""
    ELSE IF n % 2 = 1 THEN s \o Repeat(s, n - 1)
    ELSE Repeat(s \o s, n \div 2)

\* A document of the given length: the sentences named, then the sentence
\* that no query is about as many times as it takes.
Document(sentences, length) ==
    sentences \o SubSeq(Repeat(SentenceOther, 256), 1, length - Len(sentences))

\* One document of the store.
Stored(doc_id, sentences, length) ==
    [doc_id |-> doc_id, content |-> Document(sentences, length)]

\* The external contexts: what get_document_text returns for document stores
\* about max_length in size, and one text with no document marker in it.
ExternalContexts ==
    [small |-> JoinDocuments(<<Stored("doc1", SentenceRemote, 7000)>>),
     whole |-> JoinDocuments(<<Stored("doc1", SentenceRemote, 7982)>>),
     over |-> JoinDocuments(<<Stored("doc1", SentenceRemote, 7983)>>),
     both |-> JoinDocuments(<<Stored("doc1", Repeat(SentenceRemote, 3), 3000),
                              Stored("doc2", SentenceRemote \o SentenceLeave, 6000)>>),
     full |-> JoinDocuments(<<Stored("doc1", SentenceRemote, 4000),
                              Stored("doc2", Repeat(SentenceRemote, 2), 5990)>>),
     other |-> JoinDocuments(<<Stored("doc1", "", 9000)>>),
     huge |-> JoinDocuments(<<Stored("doc1", SentenceRemote, 12000)>>),
     first |-> JoinDocuments(<<Stored("doc1", Repeat(SentenceRemote, 2), 7000),
                               Stored("doc2", SentenceRemote, 4000)>>),
     second |-> JoinDocuments(<<Stored("doc1", SentenceRemote, 2000),
                                Stored("doc2", Repeat(SentenceRemote, 4), 7000)>>),
     three |-> JoinDocuments(<<Stored("doc1", Repeat(SentenceRemote, 3), 6000),
                               Stored("doc2", Repeat(SentenceRemote, 2), 5000),
                               Stored("doc3", SentenceRemote, 3000)>>),
     plain |-> Document(SentenceRemote \o SentenceLeave, 9000)]

\* generate_response reaches line 36 with a query and an external context.
StartOptimize(query, context) ==
    /\ optimization.pc = "idle"
    /\ \A c \in Calls : call[c].pc = "idle"
    /\ retrieval.pc = "idle"
    /\ optimization' = [IdleOptimization EXCEPT !.pc = "called", !.query = query,
                                                !.context = context]
    /\ UNCHANGED <<cache, now, documents_store, collection, azure_llm_client, call,
                   redis_up, last_set, last_get, retrieval, completion, chunking, forced>>

\* _optimize_context(query, context) runs.
OptimizeContext ==
    /\ optimization.pc = "called"
    /\ LET query == CHOOSE q \in OptimizeQueries : q = optimization.query
           context == ExternalContexts[optimization.context]
           relevant_sections ==
               IF Len(context) <= whole_context_len THEN <<>>
               ELSE RelevantSections(CAGEngine_extract_key_terms(query), context)
       IN  optimization' =
               [optimization EXCEPT
                   !.pc = "optimized",
                   !.relevant_sections = relevant_sections,
                   !.taken = TakenSections(relevant_sections),
                   !.optimized_context = CAGEngine_optimize_context(query, context)]
    /\ UNCHANGED <<cache, now, documents_store, collection, azure_llm_client, call,
                   redis_up, last_set, last_get, retrieval, completion, chunking, forced>>

\* generate_response goes on with the optimised context.
FinishOptimize ==
    /\ optimization.pc = "optimized"
    /\ optimization' = IdleOptimization
    /\ UNCHANGED <<cache, now, documents_store, collection, azure_llm_client, call,
                   redis_up, last_set, last_get, retrieval, completion, chunking, forced>>

NextOptimize ==
    \/ \E query \in OptimizeQueries, context \in DOMAIN ExternalContexts :
           StartOptimize(query, context)
    \/ OptimizeContext
    \/ FinishOptimize

\* The optimiser does not use the completion client: one of the two clients
\* stands for both.
InitOptimize == Init /\ azure_llm_client = "AzureOpenAIClient"

SpecOptimize == InitOptimize /\ [][NextOptimize]_vars

\* The queries of route_query and, while no call runs and nothing is stored,
\* the optimiser on the external contexts of the table: the full-context
\* engine from its lookup to its return, over contexts of every size.
NextFullContext ==
    \/ optimization.pc = "idle" /\ Next
    \/ /\ cache = <<>>
       /\ documents_store = <<>>
       /\ now = 0
       /\ NextOptimize

SpecFullContext == Init /\ [][NextFullContext]_vars

(***************************************************************************)
(* The completion calls on their own: models/llms.py, generate_response,   *)
(* and core/rag_engine.py, generate_answer                                 *)
(***************************************************************************)
\* llms.py:37, wait_exponential(multiplier=1, min=2, max=10), in seconds
wait_multiplier == 1
wait_min == 2
wait_max == 10

\* What chat.completions.create can raise: the errors of the openai package
\* and, for everything else, Exception.
ProviderErrors ==
    {"APITimeoutError", "APIConnectionError", "RateLimitError", "AuthenticationError",
     "BadRequestError", "Exception"}

\* The classes of the openai package each error is an instance of.
ErrorClasses ==
    [APITimeoutError |-> {"APITimeoutError", "APIConnectionError", "APIError"},
     APIConnectionError |-> {"APIConnectionError", "APIError"},
     RateLimitError |-> {"RateLimitError", "APIStatusError", "APIError"},
     AuthenticationError |-> {"AuthenticationError", "APIStatusError", "APIError"},
     BadRequestError |-> {"BadRequestError", "APIStatusError", "APIError"},
     Exception |-> {"Exception"},
     RuntimeError |-> {"RuntimeError"}]

\* The provider errors that pass with time: a timeout, a rate limit, a
\* connection error.
TransientErrors == {"APITimeoutError", "APIConnectionError", "RateLimitError"}

\* llms.py:13
RETRY_EXCEPTIONS ==
    {"APIError", "APIConnectionError", "APITimeoutError", "RateLimitError"}

\* isinstance(error, RETRY_EXCEPTIONS)
IsRetryException(error) == ErrorClasses[error] \cap RETRY_EXCEPTIONS # {}

\* What the body of generate_response raises when create raises error
\* (llms.py:65-71).
Reraised(error) == IF IsRetryException(error) THEN error ELSE "RuntimeError"

RECURSIVE Power(_, _)
Power(base, n) == IF n = 0 THEN 1 ELSE base * Power(base, n - 1)

\* wait_exponential of tenacity after the given attempt, exp_base being 2
wait_exponential(attempt_number) ==
    LET result == wait_multiplier * Power(2, attempt_number - 1)
    IN  IF result > wait_max THEN wait_max
        ELSE IF result < wait_min THEN wait_min
        ELSE result

\* The contents create returns in this part of the model.
CompletionContents == {OutPositive, CanonicalRefusal, OutEmpty}

\* A generation begins: azure_llm_client.generate_response(messages) in the
\* full-context mode ("cag"), the completion call of generate_answer in the
\* grounded mode ("rag").
StartCompletion(mode) ==
    /\ completion.pc = "idle"
    /\ \A c \in Calls : call[c].pc = "idle"
    /\ retrieval.pc = "idle"
    /\ optimization.pc = "idle"
    /\ completion' = [IdleCompletion EXCEPT !.pc = "create", !.mode = mode,
                                            !.attempt_number = 1]
    /\ UNCHANGED <<cache, now, documents_store, collection, azure_llm_client, call,
                   redis_up, last_set, last_get, retrieval, optimization, chunking, forced>>

\* chat.completions.create returns: generate_response returns the content
\* (llms.py:60-63), generate_answer the content stripped, or the refusal in
\* the place of a negative one (rag_engine.py:304-310; a content of None
\* raises there like any error).
CreateReturns(content) ==
    /\ completion.pc = "create"
    /\ completion' =
           [completion EXCEPT
               !.pc = "done",
               !.completed = TRUE,
               !.content =
                   IF completion.mode = "rag"
                   THEN RAGEngine_generate_answer(
                            {chunk_id("doc1", 0)}, [ok |-> TRUE, content |-> content]).answer
                   ELSE content]
    /\ UNCHANGED <<cache, now, documents_store, collection, azure_llm_client, call,
                   redis_up, last_set, last_get, retrieval, optimization, chunking, forced>>

\* chat.completions.create raises.  In generate_response the error, or the
\* RuntimeError put in its place, reaches the retry decorator: an instance of
\* RETRY_EXCEPTIONS leads to a wait and another attempt until
\* stop_after_attempt attempts have been made, and then to RetryError; any
\* other error is raised at once.  In generate_answer the except clause of
\* rag_engine.py:312-314 returns the refusal.
CreateRaises(error) ==
    /\ completion.pc = "create"
    /\ completion' =
           IF completion.mode = "rag"
           THEN [completion EXCEPT
                    !.pc = "done",
                    !.errors = Append(@, error),
                    !.content = RAGEngine_generate_answer(
                                    {chunk_id("doc1", 0)},
                                    [ok |-> FALSE, content |-> ""]).answer]
           ELSE IF ~IsRetryException(Reraised(error))
           THEN [completion EXCEPT !.pc = "done",
                                   !.errors = Append(@, error),
                                   !.raised = Reraised(error)]
           ELSE IF completion.attempt_number >= stop_after_attempt
           THEN [completion EXCEPT !.pc = "done",
                                   !.errors = Append(@, error),
                                   !.raised = "RetryError"]
           ELSE [completion EXCEPT
                    !.pc = "sleep",
                    !.errors = Append(@, error),
                    !.waits = Append(@, wait_exponential(completion.attempt_number))]
    /\ UNCHANGED <<cache, now, documents_store, collection, azure_llm_client, call,
                   redis_up, last_set, last_get, retrieval, optimization, chunking, forced>>

\* The wait is over: the next attempt.
Retry ==
    /\ completion.pc = "sleep"
    /\ completion' = [completion EXCEPT !.pc = "create",
                                        !.attempt_number = @ + 1]
    /\ UNCHANGED <<cache, now, documents_store, collection, azure_llm_client, call,
                   redis_up, last_set, last_get, retrieval, optimization, chunking, forced>>

\* The caller has the response or the error.
FinishCompletion ==
    /\ completion.pc = "done"
    /\ completion' = IdleCompletion
    /\ UNCHANGED <<cache, now, documents_store, collection, azure_llm_client, call,
                   redis_up, last_set, last_get, retrieval, optimization, chunking, forced>>

NextCompletion ==
    \/ \E mode \in {"cag", "rag"} : StartCompletion(mode)
    \/ \E content \in CompletionContents : CreateReturns(content)
    \/ \E error \in ProviderErrors : CreateRaises(error)
    \/ Retry
    \/ FinishCompletion

\* The real client was built at import.
InitCompletion == Init /\ azure_llm_client = "AzureOpenAIClient"

SpecCompletion == InitCompletion /\ [][NextCompletion]_vars

(***************************************************************************)
(* The chunker on its own: core/rag_engine.py, _semantic_chunking           *)
(***************************************************************************)
\* The lines the texts chunked are made of: a heading, two sentences that
\* with the heading make the chunk 49 and 50 characters long, two long lines
\* that together make 601 and 600 characters, and a blank line.
LineHeading == "Art 5: Remote work"
LineBody30 == "Remote work needs approval no."
LineBody31 == "Remote work needs approval now."
LineLong300 == Repeat("abcdefghi.", 30)
LineLong299 == SubSeq(LineLong300, 1, 299)
LineBlank == "  "
ChunkingLines ==
    {LineHeading, LineBody30, LineBody31, LineLong300, LineLong299, LineBlank}

MaxLines == 3

\* The texts given to the chunker: up to MaxLines of the lines, joined.
ChunkingTexts ==
    {JoinLines(lines) : lines \in UNION {[1..n -> ChunkingLines] : n \in 0..MaxLines}}

\* The locals of the loop as the record ChunkLine works on.
ChunkingLocals ==
    [chunks |-> chunking.chunks, current_chunk |-> chunking.current_chunk,
     current_title |-> chunking.current_title]

\* History: the chunk the line closes (none or one), given the locals before
\* and after it, with whether it was added to the chunks.
ClosedChunk(st, line, after) ==
    IF after = st THEN <<>>
    ELSE IF after.current_chunk = <<>>
    THEN <<[text |-> JoinLines(Append(st.current_chunk, line)),
            emitted |-> Len(after.chunks) > Len(st.chunks)]>>
    ELSE IF st.current_chunk # <<>> /\ Len(after.current_chunk) = 1
    THEN <<[text |-> JoinLines(st.current_chunk),
            emitted |-> Len(after.chunks) > Len(st.chunks)]>>
    ELSE <<>>

\* _semantic_chunking(text, doc_id) is entered (rag_engine.py:62-69).
StartChunking(text) ==
    /\ chunking.pc = "idle"
    /\ \A c \in Calls : call[c].pc = "idle"
    /\ chunking' = [IdleChunking EXCEPT !.pc = "loop", !.lines = SplitLines(text),
                                        !.i = 1,
                                        !.current_title = ChunkingStart.current_title]
    /\ UNCHANGED <<cache, now, documents_store, collection, azure_llm_client, call,
                   redis_up, last_set, last_get, retrieval, optimization, completion,
                   forced>>

\* One pass of the loop (rag_engine.py:71-107).
ChunkNextLine ==
    /\ chunking.pc = "loop"
    /\ chunking.i <= Len(chunking.lines)
    /\ LET after == ChunkLine(ChunkingLocals, chunking.lines[chunking.i])
       IN  chunking' =
               [chunking EXCEPT
                   !.i = chunking.i + 1,
                   !.chunks = after.chunks,
                   !.current_chunk = after.current_chunk,
                   !.current_title = after.current_title,
                   !.closed = chunking.closed \o
                       ClosedChunk(ChunkingLocals, Strip(chunking.lines[chunking.i]),
                                   after)]
    /\ UNCHANGED <<cache, now, documents_store, collection, azure_llm_client, call,
                   redis_up, last_set, last_get, retrieval, optimization, completion,
                   forced>>

\* The loop is over: the last chunk (rag_engine.py:109-116).
LastChunkAdded ==
    /\ chunking.pc = "loop"
    /\ chunking.i > Len(chunking.lines)
    /\ chunking' =
           [chunking EXCEPT
               !.pc = "chunked",
               !.chunks = LastChunk(ChunkingLocals),
               !.current_chunk = <<>>,
               !.closed = chunking.closed \o
                   (IF chunking.current_chunk = <<>> THEN <<>>
                    ELSE <<[text |-> JoinLines(chunking.current_chunk),
                            emitted |-> Len(LastChunk(ChunkingLocals))
                                            > Len(chunking.chunks)]>>)]
    /\ UNCHANGED <<cache, now, documents_store, collection, azure_llm_client, call,
                   redis_up, last_set, last_get, retrieval, optimization, completion,
                   forced>>

\* The caller has taken the chunks.
FinishChunking ==
    /\ chunking.pc = "chunked"
    /\ chunking' = IdleChunking
    /\ UNCHANGED <<cache, now, documents_store, collection, azure_llm_client, call,
                   redis_up, last_set, last_get, retrieval, optimization, completion,
                   forced>>

NextChunking ==
    \/ \E text \in ChunkingTexts : StartChunking(text)
    \/ ChunkNextLine
    \/ LastChunkAdded
    \/ FinishChunking

\* The chunker does not use the completion client: one of the two clients
\* stands for both.
InitChunking == Init /\ azure_llm_client = "AzureOpenAIClient"

SpecChunking == InitChunking /\ [][NextChunking]_vars

(***************************************************************************)
(* The forced searches: core/orchestrator.py, force_rag_search and          *)
(* force_cag_search                                                         *)
(***************************************************************************)
ForcedSearches == {"rag", "cag"}

\* What the cache holds when a forced search is made: an answer given before.
ForcedCached == {OutPositive}

\* orchestrator.py:221-226 and 246-251: the result of a forced search.
ForcedResult(search, response) ==
    [forced EXCEPT !.pc = "done",
                   !.response = response,
                   !.route = IF search = "rag" THEN "rag_forced" ELSE "cag_forced",
                   !.source = IF search = "rag" THEN "chroma_db" ELSE "full_context",
                   !.cache_ignored = TRUE]

\* force_rag_search(query) or force_cag_search(query) is entered; the history
\* keeps the cache as it was.
StartForced(search, query) ==
    /\ forced.pc = "idle"
    /\ \A c \in Calls : call[c].pc = "idle"
    /\ forced' = [IdleForced EXCEPT
                      !.pc = IF search = "rag" THEN "rag" ELSE "document_text",
                      !.search = search, !.query = query, !.cache_at_entry = cache]
    /\ UNCHANGED <<cache, now, documents_store, collection, azure_llm_client, call,
                   redis_up, last_set, last_get, retrieval, optimization, completion,
                   chunking>>

\* orchestrator.py:219-226: rag_engine.generate_answer(query)
ForcedRagAnswer(retrieval_ok, context, outcome) ==
    /\ forced.pc = "rag"
    /\ context \in RAGEngine_build_context(collection, retrieval_ok)
    /\ LET r == RAGEngine_generate_answer(context, outcome)
       IN  forced' = [ForcedResult("rag", r.answer) EXCEPT !.llm_called = r.llm_called]
    /\ UNCHANGED <<cache, now, documents_store, collection, azure_llm_client, call,
                   redis_up, last_set, last_get, retrieval, optimization, completion,
                   chunking>>

\* orchestrator.py:243
ForcedDocumentText ==
    /\ forced.pc = "document_text"
    /\ forced' = [forced EXCEPT !.pc = "cag_lookup",
                                !.full_text = document_text[documents_store]]
    /\ UNCHANGED <<cache, now, documents_store, collection, azure_llm_client, call,
                   redis_up, last_set, last_get, retrieval, optimization, completion,
                   chunking>>

\* orchestrator.py:244 entering cag_engine.generate_response, cag_engine.py:24-44
ForcedCagLookup ==
    /\ forced.pc = "cag_lookup"
    /\ LET got == RedisCacheManager_get_or_none(redis_up, cache, now, forced.query)
           optimized_context ==
               CAGEngine_optimize_context(forced.query, forced.full_text)
       IN  /\ cache' = got.store
           /\ forced' =
                  IF got.found /\ Truthy(got.response)
                  THEN [ForcedResult("cag", got.response) EXCEPT !.read_cache = TRUE]
                  ELSE IF Blank(forced.full_text)
                  THEN ForcedResult("cag", NoDocumentsMessage)
                  ELSE IF ~Truthy(optimized_context)
                  THEN ForcedResult("cag", CanonicalRefusal)
                  ELSE [forced EXCEPT !.pc = "cag_llm"]
    /\ UNCHANGED <<now, documents_store, collection, azure_llm_client, call,
                   redis_up, last_set, last_get, retrieval, optimization, completion,
                   chunking>>

\* cag_engine.py:46-62 and orchestrator.py:246-251
ForcedCagGenerate(transient, final) ==
    /\ forced.pc = "cag_llm"
    /\ LET r == LLMClient_generate_response(azure_llm_client, transient, final)
           valid == r.ok /\ Truthy(r.content) /\ ~cag_is_negative[r.content]
       IN  /\ cache' = IF valid
                       THEN RedisCacheManager_set_or_log(
                                redis_up, cache,
                                RedisCacheManager_set_cached_response(
                                    cache, now, forced.query, r.content))
                       ELSE cache
           /\ forced' = [ForcedResult("cag", IF r.ok THEN r.content ELSE ErrorMessage)
                             EXCEPT !.llm_called = TRUE]
           /\ last_set' = LastSet(last_set, valid /\ redis_up, now, forced.query,
                                  r.content)
    /\ UNCHANGED <<now, documents_store, collection, azure_llm_client, call,
                   redis_up, last_get, retrieval, optimization, completion, chunking>>

\* The caller has taken the result.
FinishForced ==
    /\ forced.pc = "done"
    /\ forced' = IdleForced
    /\ UNCHANGED <<cache, now, documents_store, collection, azure_llm_client, call,
                   redis_up, last_set, last_get, retrieval, optimization, completion,
                   chunking>>

\* Forced searches made between answers cached, ingestions and the passing of
\* time.
NextForced ==
    \/ /\ forced.pc = "idle"
       /\ \E q \in Queries, v \in ForcedCached : CacheSet(q, v)
    \/ /\ forced.pc = "idle"
       /\ \E d \in DocIds, t \in DocTexts : IngestDocument(d, t)
    \/ /\ forced.pc = "idle"
       /\ Tick
    \/ \E search \in ForcedSearches, q \in Queries : StartForced(search, q)
    \/ \E ok \in BOOLEAN, o \in LLMOutcomes :
           \E ctx \in RAGEngine_build_context(collection, ok) :
               ForcedRagAnswer(ok, ctx, o)
    \/ ForcedDocumentText
    \/ ForcedCagLookup
    \/ \E n \in 0..stop_after_attempt, o \in LLMOutcomes : ForcedCagGenerate(n, o)
    \/ FinishForced

SpecForced == Init /\ [][NextForced]_vars

(***************************************************************************)
(* Calls for one query that overlap                                        *)
(***************************************************************************)
\* The query the overlapping calls are made for.
SharedQuery == "¿Se permite el teletrabajo?"

\* redis_manager.py:31-35: the text read under the query's key is that of an
\* entry whose expiration is not after t.
ReadsExpired(store, t, query) ==
    LET k == cache_key_of[query]
    IN  /\ k \in DOMAIN store
        /\ Truthy(store[k])
        /\ json_loads_table[store[k]].ok
        /\ ~(t < datetime_fromisoformat(json_loads_table[store[k]].expiration))

\* redis_manager.py:39: redis_client.delete(cache_key), a command of its own.
RedisDelete(store, query) ==
    [j \in DOMAIN store \ {cache_key_of[query]} |-> store[j]]

\* What get_cached_response returns after it has deleted an entry.
NoneAfterDelete(store) == [found |-> FALSE, response |-> "", store |-> store]

\* orchestrator.py:136 up to the answer of redis_client.get
\* (redis_manager.py:31-38): an expired entry is still to be deleted.
CacheLookupGet(c) ==
    /\ call[c].pc = "cache_lookup"
    /\ IF redis_up /\ ReadsExpired(cache, now, call[c].query)
       THEN call' = [call EXCEPT ![c].pc = "cache_lookup_delete"]
       ELSE call' = Orchestrator_after_lookup(
                        c, RedisCacheManager_get_or_none(redis_up, cache, now,
                                                         call[c].query))
    /\ UNCHANGED <<cache, now, documents_store, collection, azure_llm_client, redis_up,
                   last_set, last_get, retrieval, optimization, completion, chunking, forced>>

\* redis_manager.py:39-40 and the return to orchestrator.py:137
CacheLookupDelete(c) ==
    /\ call[c].pc = "cache_lookup_delete"
    /\ cache' = RedisCacheManager_set_or_log(redis_up, cache,
                                             RedisDelete(cache, call[c].query))
    /\ call' = Orchestrator_after_lookup(c, NoneAfterDelete(cache'))
    /\ UNCHANGED <<now, documents_store, collection, azure_llm_client, redis_up,
                   last_set, last_get, retrieval, optimization, completion, chunking, forced>>

\* The caller gives the call up before its return: its locals are gone, what
\* it has sent to the server stays.
Abandon(c) ==
    /\ call[c].pc \notin {"idle", "done"}
    /\ call' = [call EXCEPT ![c] = IdleCall]
    /\ UNCHANGED <<cache, now, documents_store, collection, azure_llm_client, redis_up,
                   last_set, last_get, retrieval, optimization, completion, chunking, forced>>

\* A step of call c, the read and the delete of the orchestrator's lookup
\* steps of their own.  No time passes while a call runs, so the lookup of
\* the CAG engine, made after the orchestrator's, meets no expired entry and
\* sends one command.
ConcurrentStep(c) ==
    \/ CacheLookupGet(c)
    \/ CacheLookupDelete(c)
    \/ \E ok \in BOOLEAN, o \in LLMOutcomes :
           \E ctx \in RAGEngine_build_context(collection, ok) : RagAnswer(c, ok, ctx, o)
    \/ RagCache(c)
    \/ GetDocumentText(c)
    \/ CagLookup(c)
    \/ \E n \in 0..stop_after_attempt, o \in LLMOutcomes : CagGenerate(c, n, o)
    \/ CagJudge(c)

\* Calls for the same query made by processes that share the Redis server.
NextConcurrent ==
    \/ \E c \in Calls : StartQuery(c, SharedQuery)
    \/ \E c \in Calls : ConcurrentStep(c)
    \/ \E c \in Calls : Abandon(c)
    \/ \E c \in Calls : Return(c)
    \/ \E d \in DocIds, t \in DocTexts : IngestDocument(d, t)
    \/ Tick

SpecConcurrent == Init /\ [][NextConcurrent]_vars

\* Two calls side by side, one on the queries that name a document and one
\* on the others, over one cache and one document store.
NextIntent ==
    \/ \E q \in Queries :
           query_intent_of[q].is_document_specific /\ StartQuery("a", q)
    \/ \E q \in Queries :
           ~query_intent_of[q].is_document_specific /\ StartQuery("b", q)
    \/ \E c \in Calls : CallStep(c)
    \/ \E c \in Calls : Return(c)
    \/ \E d \in DocIds, t \in DocTexts : IngestDocument(d, t)

SpecIntent == Init /\ [][NextIntent]_vars

(***************************************************************************)
(* Properties                                                              *)
(***************************************************************************)
Done(c) == call[c].pc = "done"

\* The call has logged event e.
InTrace(c, e) == \E i \in 1..Len(call[c].trace) : call[c].trace[i] = e

\* The store holds an unexpired entry for the query.
Live(store, t, query) ==
    cache_key_of[query] \in DOMAIN store /\ t < Entry(store, cache_key_of[query]).expiration

\* The store holds exactly response for the query.
Holds(store, query, response) ==
    /\ cache_key_of[query] \in DOMAIN store
    /\ Entry(store, cache_key_of[query]).response = response

\* No document of the store has any text: the store is empty or every content
\* is whitespace.
NoDocumentText == \A i \in 1..Len(documents_store) : Blank(documents_store[i].content)

\* C1: negative answers are never cached.  No entry of the response cache
\* holds a value that Orchestrator._is_negative_response classifies negative,
\* and when a call has returned a negative answer a lookup of its query finds
\* nothing, so the next call for it goes through the pipeline again.
C1_NegativeNeverCached ==
    /\ \A k \in DOMAIN cache : ~orch_is_negative[Entry(cache, k).response]
    /\ \A c \in Calls :
           Done(c) /\ orch_is_negative[call[c].response]
               => ~RedisCacheManager_get_cached_response(cache, now, call[c].query).found

\* C1 witness: full-context generation was asked, the call ended in a negative
\* answer, and the cache holds answers of other calls.
C1_Witness ==
    \E c \in Calls :
        /\ Done(c)
        /\ InTrace(c, "cag_llm")
        /\ orch_is_negative[call[c].response]
        /\ DOMAIN cache # {}

\* C2: errors are never cached.  The response cache never holds the message
\* that full-context generation returns when it raises, nor the fallback
\* client's unavailable message.
C2_ErrorsNeverCached ==
    \A k \in DOMAIN cache :
        Entry(cache, k).response \notin {ErrorMessage, UnavailableMessage}

\* C3: errors are never confused with answers.  A call in which grounded or
\* full-context generation raised returns the internal-error response with
\* route error.
C3_ErrorsReportedAsErrors ==
    \A c \in Calls :
        Done(c) /\ (InTrace(c, "rag_raised") \/ InTrace(c, "cag_raised"))
            => call[c].route = "error" /\ call[c].response = ErrorMessage

\* C4: fallback ordering.  A call whose cache lookup missed, whose grounded
\* answer is negative and which found document text in the store has invoked
\* full-context generation when it returns.
C4_FallbackOrdering ==
    \A c \in Calls :
        /\ Done(c)
        /\ InTrace(c, "redis_miss")
        /\ orch_is_negative[call[c].rag_response]
        /\ ~NoDocumentText
        => InTrace(c, "cag")

\* C5: a cache hit short-circuits the pipeline.  When the lookup step of a
\* call runs while the cache holds an unexpired entry for the query, the call
\* returns that entry's value with route redis in that very step: no
\* retrieval, no generation, and the cache is left as it was.
C5_CacheHitShortCircuits ==
    [][\A c \in Calls :
           /\ call[c].pc = "cache_lookup"
           /\ call'[c].pc # "cache_lookup"
           /\ Live(cache, now, call[c].query)
           => /\ call'[c].pc = "done"
              /\ call'[c].response = Entry(cache, cache_key_of[call[c].query]).response
              /\ call'[c].route = "redis"
              /\ call'[c].source = "redis_cache"
              /\ call'[c].trace = <<"redis_hit">>
              /\ cache' = cache]_vars

\* C5 witness: a call served from the cache after time has passed.
C5_Witness ==
    \E c \in Calls : Done(c) /\ call[c].route = "redis" /\ now > 0

\* C6: every grounded answer that is returned is cached.  When a call returns
\* with the grounded route the cache holds exactly its response for its query.
C6_GroundedAnswerCached ==
    \A c \in Calls :
        Done(c) /\ call[c].route = "rag"
            => Holds(cache, call[c].query, call[c].response)

\* C7: the same classifier gates caching and fallback.  For the answer that
\* grounded generation has returned the orchestrator falls back exactly when
\* the cache gate classifies the answer negative.
C7_SameClassifier ==
    \A c \in Calls :
        call[c].pc \in {"rag_cache", "document_text"}
            => ((call[c].pc = "document_text") <=> orch_is_negative[call[c].rag_response])

\* C8: an empty context means a negative answer without generation.  A call
\* whose retrieval produced an empty context has the canonical refusal as its
\* grounded answer and has not invoked the completion service for it.
C8_EmptyContextRefuses ==
    \A c \in Calls :
        InTrace(c, "context_empty")
            => call[c].rag_response = CanonicalRefusal /\ ~InTrace(c, "rag_llm")

\* C8 witness: the collection holds chunks, hybrid search failed, and the call
\* went on with the refusal.
C8_Witness ==
    \E c \in Calls :
        /\ InTrace(c, "context_empty")
        /\ DOMAIN collection # {}
        /\ call[c].pc = "document_text"

\* C9: empty corpus.  A call whose lookup missed and whose grounded answer is
\* negative (for the cache gate and for the fallback test alike), made while
\* the document store is empty or holds only whitespace, returns the
\* insufficient-information answer, has invoked no full-context generation and
\* leaves no cache entry for its query.
C9_EmptyCorpus ==
    \A c \in Calls :
        /\ Done(c)
        /\ InTrace(c, "redis_miss")
        /\ orch_is_negative[call[c].rag_response]
        /\ should_fallback_to_cag[call[c].rag_response]
        /\ NoDocumentText
        => /\ call[c].response = NoDocumentsMessage
           /\ ~InTrace(c, "cag")
           /\ cache_key_of[call[c].query] \notin DOMAIN cache

\* C10: fallback success is cached.  When full-context generation was invoked
\* and returned an answer that is not negative, the call returns that answer
\* with the full-context route and the cache holds exactly it for the query.
C10_FallbackSuccessCached ==
    \A c \in Calls :
        Done(c) /\ InTrace(c, "cag") /\ ~orch_is_negative[call[c].cag_response]
            => /\ call[c].response = call[c].cag_response
               /\ call[c].route = "cag"
               /\ call[c].source = "full_context"
               /\ Holds(cache, call[c].query, call[c].cag_response)
               /\ Live(cache, now, call[c].query)

\* C10 witness: the completion service answered the full-context prompt with
\* an answer the engine itself does not cache, and the call returned it.
C10_Witness ==
    \E c \in Calls :
        /\ Done(c)
        /\ InTrace(c, "cag_llm")
        /\ call[c].route = "cag"
        /\ call[c].response = OutLongNoInfo

\* C11: terminal negative.  When full-context generation was invoked and its
\* answer is negative (the grounded answer was negative before it, or the call
\* would not have fallen back), the call returns the canonical refusal, not
\* the generator's wording, it has written nothing to the cache and the cache
\* holds no entry for its query.
C11_TerminalNegative ==
    \A c \in Calls :
        Done(c) /\ InTrace(c, "cag") /\ orch_is_negative[call[c].cag_response]
            => /\ call[c].response = CanonicalRefusal
               /\ ~InTrace(c, "redis_set")
               /\ ~InTrace(c, "cag_redis_set")
               /\ cache_key_of[call[c].query] \notin DOMAIN cache

\* C11 witness: the grounded answer was negative for both classifiers, the
\* completion service answered the full-context prompt in its own negative
\* wording, and the call returned the canonical refusal instead.
C11_Witness ==
    \E c \in Calls :
        /\ Done(c)
        /\ InTrace(c, "cag_llm")
        /\ orch_is_negative[call[c].rag_response]
        /\ call[c].cag_response = OutNoData
        /\ call[c].response = CanonicalRefusal

\* The return statement a finished call took.
Outcome(c) ==
    IF InTrace(c, "redis_hit") THEN "cache_hit"
    ELSE IF InTrace(c, "no_documents") THEN "no_documents"
    ELSE IF InTrace(c, "both_negative") THEN "both_negative"
    ELSE IF InTrace(c, "cag") THEN "full_context"
    ELSE "grounded"

\* C12: the route tag identifies the stage that produced the answer.  The
\* route of a finished call is the route of no other outcome (cache hit,
\* grounded success, full-context success, empty corpus, double negative,
\* exception), whatever the tags are called.
C12_RouteTagIdentifiesStage ==
    \A c \in Calls :
        Done(c) => /\ call[c].route = Orchestrator_route(Outcome(c))
                   /\ \A o \in Outcomes \ {Outcome(c)} :
                          Orchestrator_route(o) # call[c].route

\* C13: route_query never raises.  Whatever fails (the Redis server, hybrid
\* search, the completion service), a call that was entered reaches its
\* return, and what it returns is a response that is not blank together with
\* a route tag and a source tag.
C13_NeverRaises ==
    /\ [](\A c \in Calls :
              Done(c) => /\ ~Blank(call[c].response)
                         /\ \E o \in Outcomes :
                                /\ call[c].route = Orchestrator_route(o)
                                /\ call[c].source = Orchestrator_source(o))
    /\ \A c \in Calls : (call[c].pc \notin {"idle", "done"}) ~> Done(c)

\* C13 witness: the Redis server was down, hybrid search failed and the
\* completion service raised in full-context generation, and the call returned.
C13_Witness ==
    \E c \in Calls :
        /\ Done(c)
        /\ ~redis_up
        /\ DOMAIN collection # {}
        /\ InTrace(c, "context_empty")
        /\ InTrace(c, "cag_raised")

\* How many times the call has logged event e.
Count(c, e) == Cardinality({i \in 1..Len(call[c].trace) : call[c].trace[i] = e})

\* The call logged event e before event f.
Before(c, e, f) ==
    \E i, j \in 1..Len(call[c].trace) :
        i < j /\ call[c].trace[i] = e /\ call[c].trace[j] = f

\* C14: stage order within one call.  Grounded generation is run at most once
\* and asks the completion service at most once, full-context generation is
\* invoked at most once and asks at most once, and it is invoked only after
\* grounded generation has answered in the same call and the orchestrator's
\* fallback test has judged that answer negative.
C14_StageOrder ==
    \A c \in Calls :
        /\ Count(c, "context_empty") + Count(c, "context_found") <= 1
        /\ Count(c, "rag_llm") <= 1
        /\ Count(c, "cag") <= 1
        /\ Count(c, "cag_llm") <= 1
        /\ InTrace(c, "cag")
               => /\ should_fallback_to_cag[call[c].rag_response]
                  /\ \/ Before(c, "context_empty", "cag")
                     \/ Before(c, "context_found", "cag")

\* C14 witness: a call in which the completion service was asked for the
\* grounded answer and then for the full-context answer.
C14_Witness ==
    \E c \in Calls :
        /\ Done(c)
        /\ Before(c, "rag_llm", "cag_llm")
        /\ call[c].rag_response = CanonicalRefusal

\* What the classifier is said to compute: blank, or the canonical refusal
\* up to case and surrounding whitespace, or shorter than the threshold and
\* containing one of the refusal phrases.
negative_by_definition ==
    [s \in Texts |->
        \/ Strip(s) = ""
        \/ Lower(Strip(s)) = Lower(CanonicalRefusal)
        \/ /\ Len(Strip(s)) < ShortResponseLen
           /\ \E p \in negative_phrases : Contains(p, Lower(Strip(s)))]

\* C15: the classifier definition.  Orchestrator._is_negative_response is
\* true exactly for the blank responses, the canonical refusal and the short
\* responses with a refusal phrase, and the response of every call that ends
\* in a negative outcome of the orchestrator (the refusal of the double
\* negative, the insufficient-information answer of the empty corpus) is
\* classified negative.
C15_ClassifierDefinition ==
    /\ \A s \in Texts : orch_is_negative[s] = negative_by_definition[s]
    /\ \A c \in Calls :
           Done(c) /\ Outcome(c) \in {"no_documents", "both_negative"}
               => orch_is_negative[call[c].response]
\* C16 (cache round trip): a get for a query that follows a put of v for it
\* returns exactly v while the time is before the put's expiry (the time of
\* the put plus expiration_hours), and returns nothing at or after it.
C16_CacheRoundTrip ==
    \A i \in 1..Len(last_get) :
        \A j \in 1..Len(last_get[i].set) :
            LET g == last_get[i]
                w == g.set[j]
            IN  IF w.age < expiration_hours
                THEN g.found /\ g.response = w.response
                ELSE ~g.found

\* A get some time after the put and before its expiry has returned a
\* response with escaped characters.
C16_Witness ==
    /\ last_get # <<>>
    /\ last_get[1].set # <<>>
    /\ last_get[1].set[1].response = ValueEscapes
    /\ last_get[1].set[1].age > 0
    /\ last_get[1].found
    /\ last_get[1].response = ValueEscapes

\* C17 (lazy eviction): get_cached_response on an entry whose expiry time is
\* now or earlier deletes that entry (and no other) and returns nothing; on an
\* entry whose expiry time is later than now it returns the entry's response
\* and leaves the store as it was; so does a get for a key the store lacks.
C17_LazyEviction ==
    [][\A q \in CacheQueries :
          CacheGet(q) =>
              LET k == cache_key_of[q]
                  g == last_get'[1]
              IN  IF k \notin DOMAIN cache
                  THEN ~g.found /\ cache' = cache
                  ELSE IF now >= Entry(cache, k).expiration
                  THEN /\ ~g.found
                       /\ DOMAIN cache' = DOMAIN cache \ {k}
                       /\ \A j \in DOMAIN cache' : cache'[j] = cache[j]
                  ELSE /\ g.found
                       /\ g.response = Entry(cache, k).response
                       /\ cache' = cache]_vars

\* A get at or after the expiry of the last put has returned nothing and the
\* key is gone, while another query's entry is still held.
C17_Witness ==
    /\ last_get # <<>>
    /\ last_get[1].set # <<>>
    /\ last_get[1].set[1].age >= expiration_hours
    /\ ~last_get[1].found
    /\ cache_key_of[last_get[1].query] \notin DOMAIN cache
    /\ DOMAIN cache # {}

\* C18 (cache key isolation): every key of the store is the tag "response:"
\* followed by a query a put was made for, character for character; a get
\* for q that returns a response returns the one last put for the very string
\* q; and a put for q leaves every other query's entry, and what a get for it
\* would return, as it was.
C18_CacheKeyIsolation ==
    [][/\ \A k \in DOMAIN cache' :
              \E q \in DOMAIN last_set' :
                  /\ k = "response:" \o q
                  /\ Len(k) = Len("response:") + Len(q)
                  /\ Entry(cache', k).response = last_set'[q].response
       /\ \A q \in CacheQueries :
              CacheGet(q) /\ last_get'[1].found =>
                  /\ q \in DOMAIN last_set
                  /\ last_get'[1].response = last_set[q].response
       /\ \A q \in CacheQueries, v \in ProbeValues :
              CacheSet(q, v) =>
                  \A other \in CacheQueries \ {q} :
                      LET k == "response:" \o other
                          was == RedisCacheManager_get_cached_response(cache, now, other)
                          is == RedisCacheManager_get_cached_response(cache', now, other)
                      IN  /\ k \in DOMAIN cache' <=> k \in DOMAIN cache
                          /\ k \in DOMAIN cache => cache'[k] = cache[k]
                          /\ is.found = was.found
                          /\ is.response = was.response]_vars

\* The four queries, alike but for case, whitespace and punctuation, hold
\* entries of their own with different responses, and a get for one of them
\* has returned its own.
C18_Witness ==
    /\ \A q \in CacheQueries : cache_key_of[q] \in DOMAIN cache
    /\ Entry(cache, cache_key_of["Hola"]).response = ValueEscapes
    /\ Entry(cache, cache_key_of["hola"]).response = ValuePlain
    /\ Entry(cache, cache_key_of["Hola "]).response = ValuePlain
    /\ Entry(cache, cache_key_of["Hola."]).response = ValuePlain
    /\ last_get # <<>>
    /\ last_get[1].query = "Hola"
    /\ last_get[1].found
    /\ last_get[1].response = ValueEscapes

\* Every call is at rest: returned, given up or not begun.
AllFinished == \A c \in Calls : call[c].pc \in {"idle", "done"}

\* C19 (concurrent identical queries): whatever the interleaving of the calls
\* for one query, every entry of the store is a complete one, a response with
\* its expiration, and once every call has finished the entry of the query is
\* the last put the server took for it, as long as that put has not expired.
C19_ConcurrentIdenticalQueries ==
    /\ \A k \in DOMAIN cache :
           /\ json_loads_table[cache[k]].ok
           /\ \E t \in Times :
                  json_loads_table[cache[k]].expiration
                      = datetime_isoformat(t + expiration_hours)
    /\ AllFinished =>
           \A q \in DOMAIN last_set :
               now < last_set[q].at + expiration_hours =>
                   /\ cache_key_of[q] \in DOMAIN cache
                   /\ Entry(cache, cache_key_of[q]) =
                          [response |-> last_set[q].response,
                           expiration |-> last_set[q].at + expiration_hours]

\* The records the index holds for a document after an ingestion of text.
ChunksOf(doc_id, text) ==
    {[document |-> semantic_chunks[text][j].text,
      title |-> semantic_chunks[text][j].title,
      doc_id |-> doc_id] : j \in 1..Len(semantic_chunks[text])}

\* C20 (idempotent re-ingestion): the chunks the index holds for a document
\* are exactly the chunks of the text last ingested for it, whatever was
\* ingested for it before.
C20_IdempotentReingestion ==
    \A i \in 1..Len(documents_store) :
        LET d == documents_store[i].doc_id
        IN  {collection[id] : id \in {x \in DOMAIN collection : collection[x].doc_id = d}}
                = ChunksOf(d, documents_store[i].content)

\* C21 (empty ingestion is a no-op): an ingestion of an empty or
\* whitespace-only text does not raise and leaves the document store and the
\* index as they were.
C21_EmptyIngestionNoOp ==
    [][\A d \in IngestDocIds, t \in IngestTexts :
          IngestDocument(d, t) /\ Blank(t) =>
              /\ ~CollectionAdd(collection, d, semantic_chunks[t]).raised
              /\ documents_store' = documents_store
              /\ collection' = collection]_vars

\* The positions of the candidates of one kind in a list of candidates.
OfType(results, type) == {i \in DOMAIN results : results[i].type = type}

\* C22 (hybrid merge): _hybrid_search returns at most 2 * top_k vector
\* candidates and at most top_k lexical ones; every lexical candidate has a
\* positive lexical score and first 100 characters that no other candidate
\* has; with an empty lexical corpus the result is what the vector side gives.
C22_HybridMerge ==
    retrieval.pc = "found" =>
        LET results == retrieval.hybrid_results
            vector == OfType(results, "vector")
            lexical == OfType(results, "bm25")
        IN  /\ Cardinality(vector) <= 2 * retrieval.top_k
            /\ Cardinality(lexical) <= retrieval.top_k
            /\ \A i \in lexical :
                   /\ results[i].score > 0
                   /\ \A j \in (vector \cup lexical) \ {i} :
                          text_prefix[results[j].text] # text_prefix[results[i].text]
            /\ retrieval.corpus_empty =>
                   results = VectorCandidates(retrieval.vector_results)

\* A search that cut the vector side at 2 * top_k, added a lexical candidate
\* and left a text of the collection out.
C22_Witness ==
    /\ retrieval.pc = "found"
    /\ Cardinality(OfType(retrieval.hybrid_results, "vector")) = 2 * retrieval.top_k
    /\ Cardinality(OfType(retrieval.hybrid_results, "bm25")) = retrieval.top_k
    /\ Cardinality(DOMAIN collection) > 2 * retrieval.top_k

\* C23 (retrieval degrades to the side that succeeded): when the lexical
\* search fails after the vector search has answered, _hybrid_search still
\* returns the vector candidates.
C23_DegradesToVectorSide ==
    retrieval.pc = "found" /\ retrieval.vector_ok /\ ~retrieval.lexical_ok =>
        retrieval.hybrid_results = VectorCandidates(retrieval.vector_results)

\* The fields a candidate has before it is scored.
SameCandidate(a, b) ==
    /\ a.text = b.text
    /\ a.metadata = b.metadata
    /\ a.score = b.score
    /\ a.type = b.type

\* C24 (re-ranking result): when scoring succeeds _rerank_results returns
\* min(top_k, n) candidates, each a different candidate of the input, by
\* non-increasing combined_score = 0.5 * score + 0.5 * rerank_score, no
\* candidate left out has a greater combined_score than one returned, and the
\* context is assembled from the returned candidates alone.
C24_RerankResult ==
    retrieval.pc \in {"reranked", "built"} /\ retrieval.scored = "all" =>
        LET input == retrieval.hybrid_results
            returned == retrieval.reranked_results
            sorted == retrieval.results
        IN  /\ Len(returned) = Min(retrieval.rerank_top_k, Len(input))
            /\ \E f \in [DOMAIN returned -> DOMAIN input] :
                   /\ \A i, j \in DOMAIN returned : i # j => f[i] # f[j]
                   /\ \A i \in DOMAIN returned : SameCandidate(returned[i], input[f[i]])
            /\ \A i \in DOMAIN returned :
                   10 * returned[i].combined_score
                       = 5 * returned[i].score + 5 * returned[i].rerank_score
            /\ \A i, j \in DOMAIN returned :
                   i < j => returned[i].combined_score >= returned[j].combined_score
            /\ \A i \in DOMAIN sorted : \A j \in DOMAIN returned :
                   i > Len(returned) =>
                       sorted[i].combined_score <= returned[j].combined_score
            /\ retrieval.pc = "built" =>
                   /\ Len(retrieval.context_parts) = 3 * Len(returned)
                   /\ \A i \in DOMAIN returned :
                          retrieval.context_parts[3 * i - 1] = returned[i].text

\* Candidates with the combined scores 0.9 and 0.3 re-ranked with top_k = 1:
\* the context holds the candidate that scored 0.9 and nothing else.
C24_Witness ==
    /\ retrieval.pc = "built"
    /\ retrieval.scored = "all"
    /\ retrieval.rerank_top_k = 1
    /\ Len(retrieval.results) = 2
    /\ retrieval.results[1].combined_score = 9
    /\ retrieval.results[2].combined_score = 3
    /\ retrieval.context_parts
           = <<"[Relevancia: 0.900]", retrieval.results[1].text, "---">>

\* C25 (re-ranking failure policy): when scoring fails _rerank_results
\* returns the first min(top_k, n) candidates in the order they came in, and
\* something whenever there was a candidate and top_k >= 1.
C25_RerankFailurePolicy ==
    retrieval.pc = "reranked" /\ retrieval.scored # "all" =>
        LET input == retrieval.hybrid_results
            returned == retrieval.reranked_results
        IN  /\ Len(returned) = Min(retrieval.rerank_top_k, Len(input))
            /\ \A i \in DOMAIN returned : SameCandidate(returned[i], input[i])
            /\ input # <<>> /\ retrieval.rerank_top_k >= 1 => returned # <<>>

\* A scoring that raised with more candidates than top_k: the first one is
\* returned.
C25_Witness ==
    /\ retrieval.pc = "reranked"
    /\ retrieval.scored = "none"
    /\ retrieval.rerank_top_k = 1
    /\ Len(retrieval.hybrid_results) = 3
    /\ retrieval.reranked_results = <<retrieval.hybrid_results[1]>>

\* C26 (re-ranking is deterministic): a second call with the same query and
\* top_k on the list the first call has processed returns the same candidates
\* in the same order with the same scores.
C26_RerankDeterministic ==
    retrieval.pc = "reranked_again" =>
        retrieval.reranked_again = retrieval.reranked_results

\* A second call on a list the first call has scored and reordered, two of
\* its candidates having the same combined score.
C26_Witness ==
    /\ retrieval.pc = "reranked_again"
    /\ retrieval.scored = "all"
    /\ Len(retrieval.results) = 3
    /\ Len(retrieval.reranked_again) = 2
    /\ retrieval.reranked_again[1].combined_score
           = retrieval.reranked_again[2].combined_score
    /\ retrieval.reranked_again[1].text # retrieval.reranked_again[2].text
    /\ retrieval.results[3].text = retrieval.hybrid_results[1].text

\* The external context of the call is longer than what is used whole.
Oversized == Len(ExternalContexts[optimization.context]) > whole_context_len

\* C27 (relevance-ranked truncation): for an oversized context
\* _optimize_context emits only sections whose relevance is above the
\* threshold, the greater relevance first, and the context it returns is not
\* longer than the budget max_length.
C27_RankedTruncation ==
    optimization.pc = "optimized" /\ Oversized =>
        LET taken == optimization.taken
        IN  /\ \A i \in DOMAIN taken : AboveThreshold(taken[i].score)
            /\ \A i, j \in DOMAIN taken :
                   i < j => taken[i].score.matches >= taken[j].score.matches
            /\ Len(optimization.optimized_context) <= max_length

\* C28 (truncation fallback): when no section of an oversized context is
\* above the threshold, _optimize_context returns the first max_length
\* characters of the context, the budget of the accumulation, followed by the
\* truncation marker.
C28_TruncationFallback ==
    optimization.pc = "optimized" /\ Oversized /\ optimization.relevant_sections = <<>> =>
        LET context == ExternalContexts[optimization.context]
        IN  optimization.optimized_context
                = SubSeq(context, 1, Min(max_length, Len(context))) \o "\n\n[...]"

\* C29 (bounded retry): generate_response makes at most stop_after_attempt
\* completion calls; every call after the first follows a transient provider
\* error (a timeout, a rate limit, a connection error); the waits are within
\* the bounds of the backoff and do not shrink; and the call ends with a
\* response or with a raised error.
C29_BoundedRetry ==
    completion.mode = "cag" =>
        /\ completion.attempt_number <= stop_after_attempt
        /\ \A i \in DOMAIN completion.errors :
               i < completion.attempt_number => completion.errors[i] \in TransientErrors
        /\ \A i \in DOMAIN completion.waits :
               /\ completion.waits[i] >= wait_min
               /\ completion.waits[i] <= wait_max
               /\ i > 1 => completion.waits[i] >= completion.waits[i - 1]
        /\ completion.pc = "done" => (completion.completed <=> completion.raised = "")

\* C30 (retry in both generation modes): in the grounded mode as in the
\* full-context mode, a generation that met one transient provider failure
\* ends with the answer of a completion that succeeded after it.
C30_RetryInBothModes ==
    /\ completion.pc = "done"
    /\ Len(completion.errors) = 1
    /\ completion.errors[1] \in TransientErrors
    => completion.completed /\ completion.raised = ""

\* A heading line is at most the first line of the chunk made of these lines.
HeadingOnlyFirst(lines) == \A k \in 2..Len(lines) : matched_title(lines[k]) = ""

\* The chunk made of these lines was not longer than max_chunk_len before its
\* last line was added, unless it was then a heading alone.
ClosedWhenLong(lines) ==
    \A k \in 1..(Len(lines) - 1) :
        Len(JoinLines(SubSeq(lines, 1, k))) > max_chunk_len
            => k = 1 /\ matched_title(lines[1]) # ""

\* The chunks emitted are the closed chunks marked as emitted, in order.
EmittedTexts ==
    LET kept == SelectSeq(chunking.closed, LAMBDA e : e.emitted)
    IN  [i \in DOMAIN kept |-> kept[i].text]

\* C31: in _semantic_chunking a heading line is only ever the first line of a
\* chunk, a chunk that has grown beyond 600 characters without a heading is
\* closed, and a closed chunk is discarded exactly when it is under 50
\* characters long: a closed chunk of 50 characters or more is emitted.
C31_StructuralChunking ==
    /\ HeadingOnlyFirst(chunking.current_chunk)
    /\ ClosedWhenLong(Append(chunking.current_chunk, ""))
    /\ EmittedTexts = [i \in DOMAIN chunking.chunks |-> chunking.chunks[i].text]
    /\ \A i \in DOMAIN chunking.closed :
           LET e == chunking.closed[i]
           IN  /\ HeadingOnlyFirst(SplitLines(e.text))
               /\ ClosedWhenLong(SplitLines(e.text))
               /\ e.emitted <=> Len(e.text) >= min_chunk_len

\* C32: a forced search that reports cache_ignored = true returns a response
\* that was not read from the response cache and leaves the cache as it was
\* when the search was entered.
C32_ForcedIgnoresCache ==
    forced.pc = "done" /\ forced.cache_ignored =>
        /\ ~forced.read_cache
        /\ cache = forced.cache_at_entry

\* C33: once the cache lookup of a route_query call has missed, the call
\* does not read its response from the cache, also when another call for the
\* same query fills the cache meanwhile: a response returned as full-context
\* output was generated during the call.
C33_CacheOnlyAtLookup ==
    \A c \in Calls :
        Done(c) /\ InTrace(c, "redis_miss") =>
            /\ ~InTrace(c, "cag_redis_hit")
            /\ call[c].source = Orchestrator_source("full_context") =>
                   InTrace(c, "cag_llm")

\* The records of the index that belong to a document.
IndexedFor(coll, doc_id) ==
    {coll[id] : id \in {x \in DOMAIN coll : coll[x].doc_id = doc_id}}

\* A document has text in the store exactly when the index holds the chunks
\* of that text.
StoreMatchesIndex(store, coll) ==
    \A d \in IngestDocIds :
        IF \E i \in 1..Len(store) : store[i].doc_id = d
        THEN LET i == CHOOSE i \in 1..Len(store) : store[i].doc_id = d
             IN  IndexedFor(coll, d) = ChunksOf(d, store[i].content)
        ELSE IndexedFor(coll, d) = {}

\* C34: after every ingest_document call, returned or raised, a document has
\* text in the document store exactly when the index holds the chunks of
\* that same text, and a call that raises leaves the store and the index as
\* they were.
C34_StoreIndexConsistent ==
    [][\A d \in IngestDocIds, t \in IngestTexts :
          IngestDocument(d, t) =>
              /\ StoreMatchesIndex(documents_store', collection')
              /\ CollectionAdd(collection, d, semantic_chunks[t]).raised =>
                     /\ documents_store' = documents_store
                     /\ collection' = collection]_vars

\* C35: when the hybrid search has returned a candidate and the scoring of
\* the re-ranker fails, _build_context returns a context that is not empty,
\* made of the first top_k candidates in the order they came in.
C35_RerankFailureKeepsContext ==
    retrieval.pc = "built" /\ retrieval.scored # "all"
                           /\ retrieval.hybrid_results # <<>> =>
        LET input == retrieval.hybrid_results
            n == Min(retrieval.rerank_top_k, Len(input))
        IN  /\ retrieval.context_parts # <<>>
            /\ Len(retrieval.context_parts) = 3 * n
            /\ \A i \in 1..n : retrieval.context_parts[3 * i - 1] = input[i].text

\* C36: a cache failure is a cache miss, not a query failure.  While the
\* Redis server does not answer, the lookup of route_query finds nothing and
\* the call goes on to the grounded answer, the lookup of the full-context
\* engine finds nothing, a write stores nothing and the call returns the
\* answer of its pipeline all the same, and no call returns the error route.
C36_CacheFailureIsMiss ==
    [][\A c \in Calls :
          /\ ~redis_up =>
                /\ cache' = cache
                /\ CacheLookup(c) => call'[c].pc = "rag"
                /\ CagLookup(c) => ~InTrace(c, "cag_redis_hit")'
                /\ RagCache(c) => /\ call'[c].pc = "done"
                                  /\ call'[c].response = call[c].rag_response
                                  /\ call'[c].route = Orchestrator_route("grounded")
                /\ CagJudge(c) => /\ call'[c].pc = "done"
                                  /\ call'[c].response
                                         \in {call[c].cag_response, CanonicalRefusal}
          /\ call'[c].pc = "done" =>
                call'[c].route # Orchestrator_route("exception")]_vars

\* C36 witness: a call has returned a positive grounded answer while the
\* cache held an entry for its query that it neither read nor wrote: its
\* lookup and its write both met a server that did not answer.
C36_Witness ==
    /\ Done("a")
    /\ ~redis_up
    /\ InTrace("a", "redis_miss")
    /\ ~InTrace("a", "redis_set")
    /\ call["a"].route = Orchestrator_route("grounded")
    /\ ~orch_is_negative[call["a"].response]
    /\ cache_key_of[call["a"].query] \in DOMAIN cache

\* C37: ingestion never touches the response cache.  ingest_document leaves
\* every cache entry as it was, and a lookup for a query whose answer was
\* cached before a document was ingested still returns that answer from the
\* cache while the entry has not expired.
C37_IngestionKeepsCache ==
    [][/\ \A d \in DocIds, t \in DocTexts : IngestDocument(d, t) => cache' = cache
       /\ \A c \in Calls :
              LET q == call[c].query
              IN  /\ CacheLookup(c)
                  /\ redis_up
                  /\ q \in DOMAIN last_set
                  /\ last_set[q].ingested
                  /\ now < last_set[q].at + expiration_hours
                  => /\ call'[c].pc = "done"
                     /\ call'[c].response = last_set[q].response
                     /\ call'[c].route = Orchestrator_route("cache_hit")
                     /\ cache' = cache]_vars

\* C37 witness: a call was answered from the cache with an answer that was
\* written before the last ingestion, at a later hour than it was written.
C37_Witness ==
    /\ Done("a")
    /\ InTrace("a", "redis_hit")
    /\ call["a"].query \in DOMAIN last_set
    /\ last_set[call["a"].query].ingested
    /\ last_set[call["a"].query].at < now
    /\ call["a"].response = last_set[call["a"].query].response
    /\ documents_store # <<>>

\* C38: full-context generation always reaches the completion service when
\* it has context.  _optimize_context returns a non-empty string for every
\* external context that is not blank, and a generate_response that missed
\* the cache with a context that is not blank has called the completion
\* client once by the time it returns: it never answers on its own.
C38_ContextReachesService ==
    /\ optimization.pc = "optimized" => Truthy(optimization.optimized_context)
    /\ \A c \in Calls :
           /\ InTrace(c, "cag")
           /\ ~InTrace(c, "cag_redis_hit")
           /\ ~Blank(call[c].full_text)
           => Count(c, "cag_llm") = IF call[c].pc = "cag_llm" THEN 0 ELSE 1

\* C38 witness: a generate_response that missed the cache with a context
\* that is not blank has returned a refusal, and the refusal is the
\* completion client's.
C38_Witness ==
    /\ Done("a")
    /\ InTrace("a", "cag")
    /\ ~InTrace("a", "cag_redis_hit")
    /\ ~Blank(call["a"].full_text)
    /\ Count("a", "cag_llm") = 1
    /\ cag_is_negative[call["a"].cag_response]

\* s is the start of t
StartsWith(t, s) == Len(s) <= Len(t) /\ SubSeq(t, 1, Len(s)) = s

\* The transitions of route_query itself in the trace of call c: the events
\* of its own branches, without those inside the engines it calls.
Transitions(c) ==
    LET own(e) == e \in {"redis_hit", "redis_miss", "redis_set", "no_documents",
                         "document_text", "cag", "both_negative"}
    IN  SelectSeq(call[c].trace, own)

====
